---------------------------- MODULE Spec2Model ----------------------------
(***************************************************************************)
(* P900 test suite: the probe protocol (core/probe_injector.py), the       *)
(* background traffic generator (core/backup_files/traffic_simulator       *)
(* copy.py) and the integrator that runs both on one Master channel        *)
(* (core/p900_new_tester.py).                                              *)
(*                                                                         *)
(* Specifications:                                                         *)
(*   CodecSpec      _create_probe_packet / _parse_probe_packet on bytes    *)
(*   ProbeSpec      the probe exchange alone (run_baseline_test)           *)
(*   FairProbeSpec  ProbeSpec with the threads' loops scheduled fairly     *)
(*   Spec           probe exchange and traffic generator (run_traffic_test)*)
(*                  in one tick of the clock                               *)
(*   FairGenSpec    the traffic generator and its controller, fair         *)
(***************************************************************************)
EXTENDS Integers, Sequences, FiniteSets, TLC

(***************************************************************************)
(* Program constants.                                                      *)
(***************************************************************************)
PROBE_TYPE_REQUEST == 16
PROBE_TYPE_RESPONSE == 17
PROBE_HEADER_SIZE == 24
MarkerHi == 187
MarkerLo == 68
PROBE_MARKER == <<MarkerHi, MarkerLo>>

(***************************************************************************)
(* Bounds of the model.                                                    *)
(***************************************************************************)
MaxPayload == 2          \* codec: packet sizes up to header + MaxPayload
MaxProbes == 2           \* probes the injector sends in a run
MaxTime == 3             \* ticks of the clock in a run
MaxCount == 2            \* rate_limited_count stops counting here
HistorySize == 1         \* history_size
TimeoutTicks == 1        \* timeout_ms, in ticks
IntervalTicks == 1       \* interval_ms, in ticks

None == [valid |-> FALSE]
TargetBandwidth == 10    \* target_bandwidth the simulator is built with, in bytes per tick

Min(a, b) == IF a <= b THEN a ELSE b
Max(a, b) == IF a >= b THEN a ELSE b

VARIABLES
    \* ---- codec harness
    c_pc,               \* "input" | "encoded" | "decoded"
    c_in,               \* the arguments of _create_probe_packet
    packet,             \* the bytes handed to _parse_probe_packet
    parsed,             \* what _parse_probe_packet returned
    flipped,            \* whether a header byte of packet was changed
    \* ---- MAVLinkProfile, size sampling and measure_latency taken alone
    prof,               \* the MAVLinkProfile object and the file it was built from
    sizer,              \* the caller that asks for packet sizes, and its last sample
    lat,                \* measure_latency: resp_data and the measurement made of it
    \* ---- ProbeInjector
    running,            \* self.running
    probe_id_counter,   \* self.probe_id_counter
    records,            \* the ProbeRecord objects, by probe_id
    pending_probes,     \* keys of self.pending_probes
    probe_history,      \* self.probe_history (deque, maxlen history_size)
    stats,              \* self.stats
    last_rtt_values,    \* self.last_rtt_values
    inj,                \* _injection_loop: pc and locals
    rcv,                \* _receiver_loop: pc and scan buffer
    rsp,                \* _slave_responder_loop: pc and scan buffer
    last_statistics,    \* the value the last get_statistics() returned
    appended,           \* history: how often each record was appended to probe_history
    \* ---- serial link
    now,                \* the clock, in ticks
    m2s,                \* packets written to Master, not yet read by Slave
    s2m,                \* packets written to Slave, not yet read by Master
    master_open,        \* master_serial.is_open
    slave_open,         \* slave_serial.is_open
    master_writers,     \* threads inside master_serial.write() under a lock
    link,               \* what happened on the link so far (history)
    \* ---- TrafficSimulator
    gen_running,        \* self.running
    gen,                \* start()/_run_loop: pc and locals
    write_lock,         \* holder of TrafficSimulator.write_lock
    tokens,             \* self.tokens, in tenths of a byte
    last_token_update,  \* self.last_token_update
    gen_stats,          \* self.stats
    target_bandwidth,   \* self.target_bandwidth, in bytes per tick
    bucket_capacity,    \* self.bucket_capacity, in bytes
    adj,                \* the thread that calls adjust_rate: pc and argument
    \* ---- the thread that runs the test
    ctl                 \* run_*_test / cleanup: pc

codecVars == <<c_pc, c_in, packet, parsed, flipped>>
probeVars == <<running, probe_id_counter, records, pending_probes, probe_history,
               stats, last_rtt_values, inj, rcv, rsp, last_statistics, appended>>
linkVars == <<now, m2s, s2m, master_open, slave_open, master_writers, link>>
rateVars == <<target_bandwidth, bucket_capacity, adj>>
genVars == <<gen_running, gen, write_lock, tokens, last_token_update, gen_stats,
             rateVars>>
unitVars == <<prof, sizer, lat>>
vars == <<codecVars, unitVars, probeVars, linkVars, genVars, ctl>>

(***************************************************************************)
(* Bytes and wide integers.  TLC's integers are 32 bits wide, so a 32-bit  *)
(* probe_id and a 64-bit timestamp_us are kept as sequences of 16-bit      *)
(* limbs, least significant limb first.                                    *)
(***************************************************************************)
RECURSIVE XorBits(_, _)
XorBits(a, b) ==
    IF a = 0 THEN b
    ELSE IF b = 0 THEN a
    ELSE (((a % 2) + (b % 2)) % 2) + 2 * XorBits(a \div 2, b \div 2)

\* the ^ of two bytes, tabulated
XorTable == [a \in 0..255 |-> [b \in 0..255 |-> XorBits(a, b)]]

Xor(a, b) == XorTable[a][b]

RECURSIVE ToLimbs(_, _)
\* a non-negative integer below 2^31 as n limbs
ToLimbs(v, n) ==
    IF n = 0 THEN <<>> ELSE <<v % 65536>> \o ToLimbs(v \div 65536, n - 1)

RECURSIVE PackBE(_)
\* struct.pack with '>' in place of '<': most significant byte first
PackBE(limbs) ==
    IF limbs = <<>> THEN <<>>
    ELSE PackBE(Tail(limbs)) \o <<Head(limbs) \div 256, Head(limbs) % 256>>

RECURSIVE PackLE(_)
\* struct.pack('<I' | '<Q' | '<H', v): the bytes of v, least significant first
PackLE(limbs) ==
    IF limbs = <<>> THEN <<>>
    ELSE <<Head(limbs) % 256, Head(limbs) \div 256>> \o PackLE(Tail(limbs))

\* struct.unpack('<I' | '<Q' | '<H', bytes)[0]
UnpackLE(bytes) ==
    [i \in 1..(Len(bytes) \div 2) |-> bytes[2 * i - 1] + 256 * bytes[2 * i]]

RECURSIVE XorAll(_)
XorAll(bytes) ==
    IF bytes = <<>> THEN 0 ELSE Xor(Head(bytes), XorAll(Tail(bytes)))

Slice(s, a, b) == SubSeq(s, a, b)

(***************************************************************************)
(* _create_probe_packet(probe_id, packet_type, packet_size, timestamp).    *)
(* probe_id is 2 limbs.  timestamp (perf_counter seconds, a float, in the  *)
(* source) is [us |-> 4 limbs, ns |-> 0..999, quotient |-> BOOLEAN].  A    *)
(* clock value has quotient FALSE: us are its whole microseconds, which    *)
(* int(timestamp * 1_000_000) keeps, and ns is the rest.  A value with     *)
(* quotient TRUE is the float timestamp_us / 1_000_000.0 of a parsed       *)
(* packet, us being timestamp_us.                                          *)
(***************************************************************************)
\* the x below 1000 for which the double (x / 1_000_000.0) * 1_000_000 is the
\* one just below x, so that int() of it is x - 1; the other clock values of
\* a modelled run multiply back to themselves
TruncatedUs == {249, 251, 489, 493, 498, 502, 507, 511, 978, 983, 986, 991, 996}

TimestampUs(timestamp) ==
    IF timestamp.quotient /\ \E x \in TruncatedUs : timestamp.us = ToLimbs(x, 4)
    THEN ToLimbs(timestamp.us[1] - 1, 4)
    ELSE timestamp.us

ProbeHeaderBody(probe_id, packet_type, packet_size, timestamp) ==
    PROBE_MARKER \o PackLE(probe_id) \o <<packet_type>>
        \o PackLE(TimestampUs(timestamp)) \o PackLE(<<packet_size>>)
        \o [i \in 1..6 |-> 0]

ProbePayload(probe_id, payload_size) ==
    [k \in 1..payload_size |-> Xor((k - 1) % 256, probe_id[1] % 256)]

create_probe_packet(probe_id, packet_type, packet_size, timestamp) ==
    LET body == ProbeHeaderBody(probe_id, packet_type, packet_size, timestamp)
        header == Append(body, XorAll(body))
        payload_size == packet_size - Len(header)
    IN  IF payload_size > 0
        THEN header \o ProbePayload(probe_id, payload_size)
        ELSE header

(***************************************************************************)
(* _parse_probe_packet(data): None, or the parsed fields.  timestamp is    *)
(* timestamp_us / 1_000_000.0: the whole microseconds and nothing else.    *)
(***************************************************************************)
MarkerMatches(data) == Slice(data, 1, 2) = PROBE_MARKER

parse_probe_packet(data) ==
    IF Len(data) < PROBE_HEADER_SIZE THEN None
    ELSE IF ~MarkerMatches(data) THEN None
    ELSE [probe_id |-> UnpackLE(Slice(data, 3, 6)),
          type |-> data[7],
          timestamp |-> [us |-> UnpackLE(Slice(data, 8, 15)), ns |-> 0,
                         quotient |-> TRUE],
          size |-> UnpackLE(Slice(data, 16, 17))[1],
          valid |-> TRUE]

(***************************************************************************)
(* The codec on its own: arguments are drawn, encoded, optionally damaged  *)
(* in the header, and parsed.                                              *)
(***************************************************************************)
ProbeIds == {<<0, 0>>, <<1, 0>>, <<196, 0>>, <<256, 0>>, <<187, 1>>, <<65535, 65535>>}
PacketTypes == {PROBE_TYPE_REQUEST, PROBE_TYPE_RESPONSE}
PacketSizes == {10, 300} \cup (PROBE_HEADER_SIZE..(PROBE_HEADER_SIZE + MaxPayload))
Timestamps ==
    {[us |-> u, ns |-> n, quotient |-> FALSE] :
        u \in {<<0, 0, 0, 0>>, <<1, 0, 0, 0>>, <<54321, 18, 0, 0>>, <<65535, 65535, 1, 0>>},
        n \in {0, 999}}
FlipValues == {0, 1, 255}

\* self.stats as __init__ and reset_statistics set it.  size_stats = {}: the
\* run has one packet size, the one its records hold, and the dict has its
\* key from the first probe registered on (sent > 0)
SystemStats ==
    [total_sent |-> 0, total_received |-> 0, total_lost |-> 0,
     bytes_sent |-> 0, bytes_received |-> 0,
     last_rtt_ms |-> 0, last_jitter_ms |-> 0,
     size_stats |-> [sent |-> 0, received |-> 0, lost |-> 0, total_rtt |-> 0]]

SystemIdle ==
    /\ running = FALSE
    /\ probe_id_counter = 0
    /\ records = [i \in 0..(MaxProbes - 1) |->
                    [status |-> "NONE", timestamp_sent |-> 0, timestamp_received |-> 0,
                     packet_size |-> 0, rtt_ms |-> 0, jitter_ms |-> 0]]
    /\ pending_probes = {}
    /\ probe_history = <<>>
    /\ stats = SystemStats
    /\ last_rtt_values = <<>>
    /\ inj = [pc |-> "idle", next_probe_time |-> 0, current_time |-> 0,
              probe_id |-> 0, timestamp_sent |-> 0, probe_packet |-> <<>>]
    /\ rcv = [pc |-> "idle", buffer |-> <<>>]
    /\ rsp = [pc |-> "idle", buffer |-> <<>>]
    /\ last_statistics = None
    /\ appended = [i \in 0..(MaxProbes - 1) |-> 0]
    /\ now = 0
    /\ m2s = <<>>
    /\ s2m = <<>>
    /\ master_open = TRUE
    /\ slave_open = TRUE
    /\ master_writers = {}
    /\ link = [lost |-> FALSE, late |-> FALSE, interleaved |-> FALSE]
    /\ gen_running = FALSE
    /\ gen = [pc |-> "idle", admitted |-> 0]
    /\ write_lock = "free"
    /\ tokens = 10 * TargetBandwidth
    /\ last_token_update = 0
    /\ target_bandwidth = TargetBandwidth
    /\ bucket_capacity = TargetBandwidth
    /\ adj = [pc |-> "idle", new_bw |-> TargetBandwidth]
    /\ gen_stats = [start_time |-> 0, packets_sent |-> 0, bytes_sent |-> 0, errors |-> 0,
                    rate_limited_count |-> 0, burst_count |-> 0, write_conflicts |-> 0]
    /\ ctl = [pc |-> "init"]

\* a dict without entries
EmptyDict == [keys |-> {}, min_size |-> 0, max_size |-> 0]

\* MAVLinkProfile.__init__ before it loads anything: the empty attributes
Unloaded ==
    [size_distribution |-> <<>>, packet_profiles |-> <<>>,
     statistics |-> EmptyDict, representative_sizes |-> <<>>]

\* DetailedLatencyMeasurement(packet_id, t1, 0, 0, 0, 0, 0, 0, 0, 0, status)
Unanswered(packet_id, t1, status) ==
    [packet_id |-> packet_id, t1_master_send |-> t1, t2_slave_receive |-> 0,
     t3_slave_send |-> 0, t4_master_receive |-> 0, forward_delay_ms |-> 0,
     return_delay_ms |-> 0, rtt_ms |-> 0, processing_time_ms |-> 0,
     asymmetry_ms |-> 0, status |-> status]

\* measurements: of self.measurements, the fields get_statistics reads;
\* jitter: the 'jitter' entry of the dict get_statistics returned;
\* under_way: the requests written whose response has not reached
\* _master_receiver_loop yet; response_queue: self.response_queue;
\* own (history): the response to the request waited for was put into the
\* queue during the wait
LatIdle == [pc |-> "idle", packet_id |-> 0, t1 |-> 0,
            measurement |-> Unanswered(0, 0, "NONE"),
            measurements |-> <<>>, jitter |-> None,
            under_way |-> <<>>, response_queue |-> <<>>, own |-> FALSE]

UnitIdle ==
    /\ prof = [built |-> FALSE, file |-> [kind |-> "absent"], attrs |-> Unloaded]
    /\ sizer = [pc |-> "idle", who |-> "nobody", mode |-> "fixed", variable_sizes |-> <<>>,
                current_size_index |-> 0, k |-> 0, size |-> 0]
    /\ lat = LatIdle

CodecIdle ==
    /\ c_pc = "unused"
    /\ c_in = None
    /\ packet = <<>>
    /\ parsed = None
    /\ flipped = FALSE

CodecInit ==
    /\ c_pc = "input"
    /\ c_in \in [probe_id : ProbeIds, packet_type : PacketTypes,
                 packet_size : PacketSizes, timestamp : Timestamps]
    /\ packet = <<>>
    /\ parsed = None
    /\ flipped = FALSE
    /\ UnitIdle
    /\ SystemIdle

systemVars == <<probeVars, linkVars, genVars, ctl>>

Encode ==
    /\ c_pc = "input"
    /\ packet' = create_probe_packet(c_in.probe_id, c_in.packet_type,
                                     c_in.packet_size, c_in.timestamp)
    /\ c_pc' = "encoded"
    /\ UNCHANGED <<c_in, parsed, flipped, systemVars, unitVars>>

\* one header byte of the encoded packet is changed on the wire
FlipHeaderByte ==
    /\ c_pc = "encoded"
    /\ ~flipped
    /\ \E pos \in 1..PROBE_HEADER_SIZE, v \in FlipValues :
        /\ packet[pos] # v
        /\ packet' = [packet EXCEPT ![pos] = v]
    /\ flipped' = TRUE
    /\ UNCHANGED <<c_pc, c_in, parsed, systemVars, unitVars>>

\* the receiver has fewer than all bytes of the packet
Truncate ==
    /\ c_pc = "encoded"
    /\ ~flipped
    /\ \E n \in {0, PROBE_HEADER_SIZE - 1} : packet' = SubSeq(packet, 1, n)
    /\ flipped' = TRUE
    /\ UNCHANGED <<c_pc, c_in, parsed, systemVars, unitVars>>

Decode ==
    /\ c_pc = "encoded"
    /\ parsed' = parse_probe_packet(packet)
    /\ c_pc' = "decoded"
    /\ UNCHANGED <<c_in, packet, flipped, systemVars, unitVars>>

CodecNext == Encode \/ FlipHeaderByte \/ Truncate \/ Decode

CodecSpec == CodecInit /\ [][CodecNext]_vars

(***************************************************************************)
(* ProbeInjector: configuration of the modelled run.                       *)
(***************************************************************************)
FixedSize == 26          \* fixed_size: the probe packet size of the run
TickUs == 1000           \* one tick of the clock is a millisecond
ClockOriginUs == 249     \* perf_counter() when the run starts, in microseconds
RttWindow == 100         \* last_rtt_values = deque(maxlen=100)

\* the difference taken with its sign
Signed(x) == x

Abs(x) == IF x < 0 THEN 0 - x ELSE x

\* perf_counter() as the timestamp argument of _create_probe_packet
Stamp(t) ==
    [us |-> ToLimbs(ClockOriginUs + t * TickUs, 4), ns |-> 0, quotient |-> FALSE]

\* bytearray.find(PROBE_MARKER) + 1, and 0 when it is not there
FindMarker(buffer) ==
    LET hits == {i \in 1..(Len(buffer) - 1) :
                    buffer[i] = MarkerHi /\ buffer[i + 1] = MarkerLo}
    IN  IF hits = {} THEN 0 ELSE CHOOSE i \in hits : \A j \in hits : i <= j

Drop(buffer, n) == SubSeq(buffer, n + 1, Len(buffer))

RECURSIVE Concat(_)
\* serial.read(in_waiting): everything written so far, in order
Concat(chunks) ==
    IF chunks = <<>> THEN <<>> ELSE Head(chunks) \o Concat(Tail(chunks))

\* deque.append with maxlen
AppendBounded(q, x, maxlen) ==
    IF Len(q) >= maxlen THEN Append(Tail(q), x) ELSE Append(q, x)

\* a counter that is not advanced
SameProbeId(counter) == counter

\* (probe_id_counter + 1) % 0xFFFFFFFF; the counter stays far below the modulus
NextProbeId(counter) == counter + 1

(***************************************************************************)
(* One pass of the scan loop shared by _receiver_loop and                  *)
(* _slave_responder_loop: [more, buffer, parsed].                          *)
(***************************************************************************)
ScanPass(buffer) ==
    IF Len(buffer) < PROBE_HEADER_SIZE
    THEN [more |-> FALSE, buffer |-> buffer, parsed |-> None]
    ELSE LET marker_pos == FindMarker(buffer)
         IN  IF marker_pos = 0
             THEN [more |-> FALSE, buffer |-> <<>>, parsed |-> None]
             ELSE LET b == Drop(buffer, marker_pos - 1)
                      p == parse_probe_packet(b)
                      rest == IF p.valid THEN Drop(b, p.size)
                              ELSE Drop(b, PROBE_HEADER_SIZE)
                  IN  [more |-> Len(rest) >= PROBE_HEADER_SIZE,
                       buffer |-> rest,
                       parsed |-> p]

(***************************************************************************)
(* _process_probe_response, under probe_lock.                              *)
(***************************************************************************)
\* the lookup done among all records ever created, pending or not
AnyRecordMatch(probe_id) ==
    {i \in DOMAIN records : records[i].status # "NONE" /\ ToLimbs(i, 2) = probe_id}

PendingMatch(probe_id) == {i \in pending_probes : ToLimbs(i, 2) = probe_id}

ProcessProbeResponse(probe_id, received_timestamp, packet_size) ==
    IF PendingMatch(probe_id) = {}
    THEN UNCHANGED <<records, pending_probes, probe_history, stats, last_rtt_values,
                     appended>>
    ELSE LET id == CHOOSE i \in PendingMatch(probe_id) : TRUE
             rtt_ms == received_timestamp - records[id].timestamp_sent
             jitter_ms == IF last_rtt_values = <<>> THEN 0
                          ELSE Abs(rtt_ms - last_rtt_values[Len(last_rtt_values)])
         IN  /\ pending_probes' = pending_probes \ {id}
             /\ last_rtt_values' = AppendBounded(last_rtt_values, rtt_ms, RttWindow)
             /\ records' = [records EXCEPT ![id].timestamp_received = received_timestamp,
                                           ![id].status = "RECEIVED",
                                           ![id].rtt_ms = rtt_ms,
                                           ![id].jitter_ms = jitter_ms]
             /\ stats' = [stats EXCEPT !.total_received = @ + 1,
                                       !.bytes_received = @ + packet_size,
                                       !.last_rtt_ms = rtt_ms,
                                       !.last_jitter_ms = jitter_ms,
                                       !.size_stats =
                                           IF packet_size = records[id].packet_size
                                              /\ @.sent > 0
                                           THEN [@ EXCEPT !.received = @ + 1,
                                                          !.total_rtt = @ + rtt_ms]
                                           ELSE @]
             /\ probe_history' = AppendBounded(probe_history, id, HistorySize)
             /\ appended' = [appended EXCEPT ![id] = @ + 1]

(***************************************************************************)
(* _check_timeouts, under probe_lock.                                      *)
(***************************************************************************)
\* the comparison made with timeout_ms taken for seconds
TimedOutSeconds(current_time) ==
    {i \in pending_probes :
        current_time - records[i].timestamp_sent > TimeoutTicks * 1000}

TimedOut(current_time) ==
    {i \in pending_probes : current_time - records[i].timestamp_sent > TimeoutTicks}

RECURSIVE AppendAll(_, _)
\* the timed-out records, appended in the order of the dict (insertion order)
AppendAll(q, ids) ==
    IF ids = {} THEN q
    ELSE LET i == CHOOSE x \in ids : \A y \in ids : x <= y
         IN  AppendAll(AppendBounded(q, i, HistorySize), ids \ {i})

CheckTimeouts ==
    LET timed_out == TimedOut(now)
    IN  /\ pending_probes' = pending_probes \ timed_out
        /\ records' = [i \in DOMAIN records |->
                         IF i \in timed_out THEN [records[i] EXCEPT !.status = "TIMEOUT"]
                         ELSE records[i]]
        /\ stats' = [stats EXCEPT !.total_lost = @ + Cardinality(timed_out),
                                  !.size_stats.lost = @ + Cardinality(timed_out)]
        /\ probe_history' = AppendAll(probe_history, timed_out)
        /\ appended' = [i \in DOMAIN appended |->
                          IF i \in timed_out THEN appended[i] + 1 ELSE appended[i]]

(***************************************************************************)
(* _injection_loop.                                                        *)
(***************************************************************************)
\* the thread starts: next_probe_time = perf_counter()
InjBegin ==
    /\ inj.pc = "begin"
    /\ inj' = [inj EXCEPT !.pc = "loop", !.next_probe_time = now]
    /\ UNCHANGED <<codecVars, unitVars, running, probe_id_counter, records, pending_probes,
                   probe_history, stats, last_rtt_values, rcv, rsp,
                   last_statistics, appended,
                   linkVars, genVars, ctl>>

\* a probe is due; the run sends MaxProbes probes at most
ProbeDue(current_time, next_probe_time) ==
    current_time >= next_probe_time /\ probe_id_counter < MaxProbes

\* while self.running: current_time = perf_counter(); is a probe due?
InjLoop ==
    /\ inj.pc = "loop"
    /\ inj' = IF ~running THEN [inj EXCEPT !.pc = "done"]
              ELSE IF ProbeDue(now, inj.next_probe_time)
                   THEN [inj EXCEPT !.pc = "send", !.current_time = now]
                   ELSE [inj EXCEPT !.pc = "sweep", !.current_time = now]
    /\ UNCHANGED <<codecVars, unitVars, running, probe_id_counter, records, pending_probes,
                   probe_history, stats, last_rtt_values, rcv, rsp,
                   last_statistics, appended,
                   linkVars, genVars, ctl>>

\* _create_probe_packet(probe_id, PROBE_TYPE_REQUEST, size, perf_counter()) for
\* the ids and the clock values of a run, tabulated
RequestPackets ==
    [id \in 0..(MaxProbes - 1) |->
        [t \in 0..MaxTime |->
            create_probe_packet(ToLimbs(id, 2), PROBE_TYPE_REQUEST, FixedSize, Stamp(t))]]

\* allocate the id, build the packet; master_serial.write() and flush() put it
\* on the wire, whoever else is writing: the injector takes no lock
InjSend ==
    /\ inj.pc = "send"
    /\ probe_id_counter' = NextProbeId(probe_id_counter)
    /\ LET probe_packet == RequestPackets[probe_id_counter][now]
       IN  IF master_open
           THEN /\ inj' = [inj EXCEPT !.pc = "register",
                                      !.probe_id = probe_id_counter,
                                      !.timestamp_sent = now,
                                      !.probe_packet = probe_packet]
                /\ m2s' = Append(m2s, probe_packet)
                /\ link' = [link EXCEPT !.interleaved = @ \/ (master_writers # {})]
           ELSE /\ inj' = [inj EXCEPT !.pc = "sweep",
                                      !.probe_id = probe_id_counter,
                                      !.timestamp_sent = now,
                                      !.probe_packet = probe_packet,
                                      !.next_probe_time = inj.current_time + IntervalTicks]
                /\ UNCHANGED <<m2s, link>>
    /\ UNCHANGED <<codecVars, unitVars, running, records, pending_probes, probe_history, stats,
                   last_rtt_values, rcv, rsp, last_statistics, appended, now, s2m,
                   master_open, slave_open, master_writers, genVars, ctl>>

\* with self.probe_lock: pending_probes[probe_id] = record; the counters;
\* then next_probe_time = current_time + interval
InjRegister ==
    /\ inj.pc = "register"
    /\ records' = [records EXCEPT ![inj.probe_id] =
                      [status |-> "PENDING", timestamp_sent |-> inj.timestamp_sent,
                       timestamp_received |-> 0, packet_size |-> FixedSize,
                       rtt_ms |-> 0, jitter_ms |-> 0]]
    /\ pending_probes' = pending_probes \cup {inj.probe_id}
    /\ stats' = [stats EXCEPT !.total_sent = @ + 1,
                              !.bytes_sent = @ + Len(inj.probe_packet),
                              !.size_stats.sent = @ + 1]
    /\ inj' = [inj EXCEPT !.pc = "sweep",
                          !.next_probe_time = inj.current_time + IntervalTicks]
    /\ UNCHANGED <<codecVars, unitVars, running, probe_id_counter, probe_history, last_rtt_values,
                   rcv, rsp, last_statistics, appended, linkVars, genVars, ctl>>

\* self._check_timeouts(); time.sleep(0.0001).  The locals of the pass are
\* assigned again before the next pass reads them: they are cleared here.
InjSweep ==
    /\ inj.pc = "sweep"
    /\ CheckTimeouts
    /\ inj' = [inj EXCEPT !.pc = "loop", !.current_time = 0, !.probe_id = 0,
                          !.timestamp_sent = 0, !.probe_packet = <<>>]
    /\ UNCHANGED <<codecVars, unitVars, running, probe_id_counter, last_rtt_values, rcv, rsp,
                   last_statistics, linkVars, genVars, ctl>>

(***************************************************************************)
(* _receiver_loop.                                                         *)
(***************************************************************************)
\* while self.running: if in_waiting > 0: buffer.extend(read(in_waiting))
RcvLoop ==
    /\ rcv.pc = "loop"
    /\ ~running \/ s2m # <<>>
    /\ IF ~running
       THEN /\ rcv' = [rcv EXCEPT !.pc = "done"]
            /\ UNCHANGED s2m
       ELSE /\ rcv' = [pc |-> "scan", buffer |-> rcv.buffer \o Concat(s2m)]
            /\ s2m' = <<>>
    /\ UNCHANGED <<codecVars, unitVars, running, probe_id_counter, records, pending_probes,
                   probe_history, stats, last_rtt_values, inj, rsp,
                   last_statistics, appended,
                   now, m2s, master_open, slave_open, master_writers, link, genVars, ctl>>

\* one pass of: while len(buffer) >= PROBE_HEADER_SIZE
RcvScan ==
    /\ rcv.pc = "scan"
    /\ LET pass == ScanPass(rcv.buffer)
       IN  /\ rcv' = [pc |-> IF pass.more THEN "scan" ELSE "loop", buffer |-> pass.buffer]
           /\ IF pass.parsed.valid /\ pass.parsed.type = PROBE_TYPE_RESPONSE
              THEN ProcessProbeResponse(pass.parsed.probe_id, now, pass.parsed.size)
              ELSE UNCHANGED <<records, pending_probes, probe_history, stats,
                               last_rtt_values, appended>>
    /\ UNCHANGED <<codecVars, unitVars, running, probe_id_counter, inj, rsp, last_statistics,
                   linkVars, genVars, ctl>>

(***************************************************************************)
(* _slave_responder_loop.                                                  *)
(***************************************************************************)
RspLoop ==
    /\ rsp.pc = "loop"
    /\ ~running \/ m2s # <<>>
    /\ IF ~running
       THEN /\ rsp' = [rsp EXCEPT !.pc = "done"]
            /\ UNCHANGED m2s
       ELSE /\ rsp' = [pc |-> "scan", buffer |-> rsp.buffer \o Concat(m2s)]
            /\ m2s' = <<>>
    /\ UNCHANGED <<codecVars, unitVars, running, probe_id_counter, records, pending_probes,
                   probe_history, stats, last_rtt_values, inj, rcv,
                   last_statistics, appended,
                   now, s2m, master_open, slave_open, master_writers, link, genVars, ctl>>

\* one pass of the scan loop; a Request is answered on slave_serial
RspScan ==
    /\ rsp.pc = "scan"
    /\ LET pass == ScanPass(rsp.buffer)
       IN  /\ rsp' = [pc |-> IF pass.more THEN "scan" ELSE "loop", buffer |-> pass.buffer]
           /\ IF pass.parsed.valid /\ pass.parsed.type = PROBE_TYPE_REQUEST
              THEN s2m' = Append(s2m, create_probe_packet(pass.parsed.probe_id,
                                          PROBE_TYPE_RESPONSE, pass.parsed.size,
                                          pass.parsed.timestamp))
              ELSE UNCHANGED s2m
    /\ UNCHANGED <<codecVars, unitVars, running, probe_id_counter, records, pending_probes,
                   probe_history, stats, last_rtt_values, inj, rcv,
                   last_statistics, appended,
                   now, m2s, master_open, slave_open, master_writers, link, genVars, ctl>>

(***************************************************************************)
(* The radio link and the clock.                                           *)
(***************************************************************************)
\* the link drops what one write put on it
LoseM2S ==
    /\ m2s # <<>>
    /\ m2s' = Tail(m2s)
    /\ link' = [link EXCEPT !.lost = TRUE]
    /\ UNCHANGED <<codecVars, unitVars, probeVars, now, s2m, master_open, slave_open,
                   master_writers, genVars, ctl>>

LoseS2M ==
    /\ s2m # <<>>
    /\ s2m' = Tail(s2m)
    /\ link' = [link EXCEPT !.lost = TRUE]
    /\ UNCHANGED <<codecVars, unitVars, probeVars, now, m2s, master_open, slave_open,
                   master_writers, genVars, ctl>>

\* bytes are under way or wait in a scan buffer
InFlight == m2s # <<>> \/ s2m # <<>> \/ rcv.pc = "scan" \/ rsp.pc = "scan"

\* time passes; link.late records that it passed with bytes under way
Tick ==
    /\ now < MaxTime
    /\ now' = now + 1
    /\ link' = [link EXCEPT !.late = @ \/ InFlight]
    /\ UNCHANGED <<codecVars, unitVars, probeVars, m2s, s2m, master_open, slave_open,
                   master_writers, genVars, ctl>>

(***************************************************************************)
(* get_statistics, under probe_lock.  A float is the fraction num/den.     *)
(***************************************************************************)
Frac(n, d) == [num |-> n, den |-> d]
Zero == Frac(0, 1)

RECURSIVE Sum(_)
Sum(q) == IF q = <<>> THEN 0 ELSE Head(q) + Sum(Tail(q))

RECURSIVE SeqMin(_)
SeqMin(q) == IF Len(q) = 1 THEN q[1] ELSE Min(Head(q), SeqMin(Tail(q)))

RECURSIVE SeqMax(_)
SeqMax(q) == IF Len(q) = 1 THEN q[1] ELSE Max(Head(q), SeqMax(Tail(q)))

Squares(q) == [i \in 1..Len(q) |-> q[i] * q[i]]

\* np.mean
Mean(q) == Frac(Sum(q), Len(q))

\* np.std, squared: mean(x^2) - mean(x)^2
StdSquared(q) == Frac(Len(q) * Sum(Squares(q)) - Sum(q) * Sum(q), Len(q) * Len(q))

\* np.percentile(q, pct), linear interpolation between the closest ranks
Percentile(q, pct) ==
    LET a == SortSeq(q, LAMBDA x, y : x < y)
        pos == (Len(q) - 1) * pct
        lo == pos \div 100
        hi == Min(lo + 1, Len(q) - 1)
    IN  Frac(a[lo + 1] * 100 + (pos - 100 * lo) * (a[hi + 1] - a[lo + 1]), 100)

\* the records of probe_history with status RECEIVED
ReceivedProbes == SelectSeq(probe_history, LAMBDA i : records[i].status = "RECEIVED")

\* loss_rate without the branch for no received probe
LossRatePlain(received_probes) ==
    IF stats.total_sent > 0
    THEN Frac(stats.total_lost * 100, stats.total_sent)
    ELSE Zero

\* loss_rate counted from the probes that were not received
LossRateNotReceived(received_probes) ==
    IF received_probes = <<>>
    THEN IF stats.total_sent # 0 THEN Frac(100, 1) ELSE Zero
    ELSE IF stats.total_sent > 0
         THEN Frac((stats.total_sent - stats.total_received) * 100, stats.total_sent)
         ELSE Zero

\* loss_rate of get_statistics
LossRate(received_probes) ==
    IF received_probes = <<>>
    THEN IF stats.total_sent # 0 THEN Frac(100, 1) ELSE Zero
    ELSE IF stats.total_sent > 0
         THEN Frac(stats.total_lost * 100, stats.total_sent)
         ELSE Zero

get_statistics ==
    LET received_probes == ReceivedProbes
        rtts == [k \in 1..Len(received_probes) |-> records[received_probes[k]].rtt_ms]
        all_jitters == [k \in 1..Len(received_probes) |->
                           records[received_probes[k]].jitter_ms]
        jitters == SelectSeq(all_jitters, LAMBDA j : j > 0)
        rate == IF IntervalTicks # 0 THEN Frac(1000, IntervalTicks) ELSE Zero
    IN  IF received_probes = <<>>
        THEN [valid |-> TRUE,
              total_sent |-> stats.total_sent,
              total_received |-> 0,
              total_lost |-> stats.total_lost,
              loss_rate |-> LossRate(received_probes),
              avg_rtt_ms |-> Zero, min_rtt_ms |-> 0, max_rtt_ms |-> 0,
              std_rtt_ms |-> Zero, avg_jitter_ms |-> Zero, max_jitter_ms |-> 0,
              percentile_95_ms |-> Zero, percentile_99_ms |-> Zero,
              current_rate_hz |-> rate,
              bytes_sent |-> stats.bytes_sent,
              bytes_received |-> stats.bytes_received]
        ELSE [valid |-> TRUE,
              total_sent |-> stats.total_sent,
              total_received |-> stats.total_received,
              total_lost |-> stats.total_lost,
              loss_rate |-> LossRate(received_probes),
              avg_rtt_ms |-> Mean(rtts),
              min_rtt_ms |-> SeqMin(rtts),
              max_rtt_ms |-> SeqMax(rtts),
              std_rtt_ms |-> StdSquared(rtts),
              avg_jitter_ms |-> IF jitters # <<>> THEN Mean(jitters) ELSE Zero,
              max_jitter_ms |-> IF jitters # <<>> THEN SeqMax(jitters) ELSE 0,
              percentile_95_ms |-> Percentile(rtts, 95),
              percentile_99_ms |-> Percentile(rtts, 99),
              current_rate_hz |-> rate,
              bytes_sent |-> stats.bytes_sent,
              bytes_received |-> stats.bytes_received]

(***************************************************************************)
(* TrafficSimulator: token bucket, start(), _run_loop, _send_packet_safe.  *)
(***************************************************************************)
BurstTenths == 12        \* burst_allowance = 1.2
TrafficPacketSize == 10  \* len(data) of the packet _prepare_packet returns

\* generate_mavlink_traffic(size): STX, payload length, sequence, system id,
\* component id, message id, payload, checksum
TrafficPacket == <<254, TrafficPacketSize - 8, 0, 1, 1, 0, 0, 0, 0, 0>>

\* a counter that is left as it is
NotCounted(n) == n

\* rate_limited_count grows with every idle pass; it stops counting at MaxCount
Count(n) == IF n < MaxCount THEN n + 1 ELSE n

\* a number of bytes in the unit of self.tokens
Tenths(bytes) == 10 * bytes

\* self.bucket_capacity * self.burst_allowance
Capacity == bucket_capacity * BurstTenths

\* _update_tokens without the min
UncappedTokens == tokens + (now - last_token_update) * Tenths(target_bandwidth)

\* _update_tokens: the value of self.tokens afterwards
UpdatedTokens ==
    Min(tokens + (now - last_token_update) * Tenths(target_bandwidth), Capacity)

\* _consume_tokens that takes the amount whatever the bucket holds
AlwaysConsume(available, amount) == TRUE

\* _consume_tokens: if available >= amount
CanConsume(available, amount) == available >= amount

\* start(): self.running = True, the counters and the bucket are reset.  A
\* closed port is opened again first.  stats['start_time'], None before the
\* first start(), is 0 then; gen.admitted is history: the bytes for which
\* _consume_tokens has returned True since start().
GenStart ==
    /\ gen.pc = "start"
    /\ master_open' = TRUE
    /\ gen_running' = TRUE
    /\ gen_stats' = [start_time |-> now, packets_sent |-> 0, bytes_sent |-> 0,
                     errors |-> 0, rate_limited_count |-> 0, burst_count |-> 0,
                     write_conflicts |-> 0]
    /\ tokens' = Tenths(bucket_capacity)
    /\ last_token_update' = now
    /\ gen' = [gen EXCEPT !.pc = "loop", !.admitted = 0]
    /\ UNCHANGED <<codecVars, unitVars, probeVars, now, m2s, s2m, slave_open, master_writers,
                   link, write_lock, rateVars, ctl>>

\* while self.running: _prepare_packet(); _consume_tokens(pkt_size).  When the
\* loop ends, start() runs its finally: self.running = False.
GenLoop ==
    /\ gen.pc = "loop"
    /\ IF ~gen_running
       THEN /\ gen' = [gen EXCEPT !.pc = "done"]
            /\ gen_running' = FALSE
            /\ UNCHANGED <<tokens, last_token_update, gen_stats>>
       ELSE /\ last_token_update' = now
            /\ UNCHANGED gen_running
            /\ IF CanConsume(UpdatedTokens, Tenths(TrafficPacketSize))
               THEN /\ tokens' = UpdatedTokens - Tenths(TrafficPacketSize)
                    /\ gen_stats' = IF UpdatedTokens > Tenths(bucket_capacity)
                                    THEN [gen_stats EXCEPT !.burst_count = @ + 1]
                                    ELSE gen_stats
                    /\ gen' = [gen EXCEPT !.pc = "acquire",
                                          !.admitted = @ + TrafficPacketSize]
               ELSE /\ tokens' = UpdatedTokens
                    /\ gen_stats' = [gen_stats EXCEPT !.rate_limited_count = Count(@)]
                    /\ gen' = [gen EXCEPT !.pc = "sleep"]
    /\ UNCHANGED <<codecVars, unitVars, probeVars, linkVars, write_lock, rateVars, ctl>>

\* rate limited: time.sleep(min(pkt_size / target_bandwidth, 0.01)) is over
GenSleep ==
    /\ gen.pc = "sleep"
    /\ gen' = [gen EXCEPT !.pc = "loop"]
    /\ UNCHANGED <<codecVars, unitVars, probeVars, linkVars, gen_running, write_lock, tokens,
                   last_token_update, gen_stats, rateVars, ctl>>

\* _send_packet_safe: write_lock.acquire(blocking=False); when that fails,
\* write_conflicts += 1 and the acquire with a timeout begins
GenAcquire ==
    /\ gen.pc = "acquire"
    /\ IF write_lock = "free"
       THEN /\ write_lock' = "gen"
            /\ master_writers' = master_writers \cup {"gen"}
            /\ gen' = [gen EXCEPT !.pc = "write"]
            /\ UNCHANGED gen_stats
       ELSE /\ gen_stats' = [gen_stats EXCEPT !.write_conflicts = Count(@)]
            /\ gen' = [gen EXCEPT !.pc = "wait"]
            /\ UNCHANGED <<write_lock, master_writers>>
    /\ UNCHANGED <<codecVars, unitVars, probeVars, now, m2s, s2m, master_open, slave_open, link,
                   gen_running, tokens, last_token_update, rateVars, ctl>>

\* write_lock.acquire() that never gives up
GenWaitBlocking ==
    /\ gen.pc = "wait"
    /\ write_lock = "free"
    /\ write_lock' = "gen"
    /\ master_writers' = master_writers \cup {"gen"}
    /\ gen' = [gen EXCEPT !.pc = "write"]
    /\ UNCHANGED <<codecVars, unitVars, probeVars, now, m2s, s2m, master_open, slave_open, link,
                   gen_running, tokens, last_token_update, gen_stats, rateVars, ctl>>

\* the acquire with a timeout inside the try: the finally releases the lock
\* also when the acquire has failed
GenWaitReleasing ==
    /\ gen.pc = "wait"
    /\ IF write_lock = "free"
       THEN /\ write_lock' = "gen"
            /\ master_writers' = master_writers \cup {"gen"}
            /\ gen' = [gen EXCEPT !.pc = "write"]
       ELSE /\ gen' = [gen EXCEPT !.pc = "loop"]
            /\ write_lock' = "free"
            /\ UNCHANGED master_writers
    /\ UNCHANGED <<codecVars, unitVars, probeVars, now, m2s, s2m, master_open, slave_open, link,
                   gen_running, tokens, last_token_update, gen_stats, rateVars, ctl>>

\* _send_packet_safe: write_lock.acquire(timeout=0.01) returns: with the lock
\* when it came free, and without it (return False) when the 10 ms are over
GenWait ==
    /\ gen.pc = "wait"
    /\ IF write_lock = "free"
       THEN /\ write_lock' = "gen"
            /\ master_writers' = master_writers \cup {"gen"}
            /\ gen' = [gen EXCEPT !.pc = "write"]
       ELSE /\ gen' = [gen EXCEPT !.pc = "loop"]
            /\ UNCHANGED <<write_lock, master_writers>>
    /\ UNCHANGED <<codecVars, unitVars, probeVars, now, m2s, s2m, master_open, slave_open, link,
                   gen_running, tokens, last_token_update, gen_stats, rateVars, ctl>>

\* serial_port.write(data) returns or raises; finally: write_lock.release()
GenWritten ==
    /\ gen.pc = "write"
    /\ write_lock' = "free"
    /\ master_writers' = master_writers \ {"gen"}
    /\ IF master_open
       THEN /\ m2s' = Append(m2s, TrafficPacket)
            /\ UNCHANGED link
            /\ gen_stats' = [gen_stats EXCEPT !.packets_sent = @ + 1,
                                             !.bytes_sent = @ + TrafficPacketSize]
       ELSE /\ gen_stats' = [gen_stats EXCEPT !.errors = @ + 1]
            /\ UNCHANGED <<m2s, link>>
    /\ gen' = [gen EXCEPT !.pc = "loop"]
    /\ UNCHANGED <<codecVars, unitVars, probeVars, now, s2m, master_open, slave_open,
                   gen_running, tokens, last_token_update, rateVars, ctl>>

\* the rates adjust_rate is called with
Rates == {TargetBandwidth \div 2, TargetBandwidth}

\* adjust_rate(new_bw), called by another thread while the generator runs:
\* self.target_bandwidth = new_bw
AdjustRateBandwidth ==
    /\ adj.pc = "idle"
    /\ gen_running
    /\ \E new_bw \in Rates :
          /\ target_bandwidth' = new_bw
          /\ adj' = [pc |-> "capacity", new_bw |-> new_bw]
    /\ UNCHANGED <<codecVars, unitVars, probeVars, linkVars, gen_running, gen, write_lock, tokens,
                   last_token_update, gen_stats, bucket_capacity, ctl>>

\* adjust_rate: self.bucket_capacity = new_bw, and _calculate_timing_params(),
\* whose results the loop does not read
AdjustRateCapacity ==
    /\ adj.pc = "capacity"
    /\ bucket_capacity' = adj.new_bw
    /\ adj' = [adj EXCEPT !.pc = "idle"]
    /\ UNCHANGED <<codecVars, unitVars, probeVars, linkVars, gen_running, gen, write_lock, tokens,
                   last_token_update, gen_stats, target_bandwidth, ctl>>

\* another user of the Lock that was handed to the constructor as write_lock
OtherAcquire ==
    /\ write_lock = "free"
    /\ write_lock' = "other"
    /\ UNCHANGED <<codecVars, unitVars, probeVars, linkVars, gen_running, gen, tokens,
                   last_token_update, gen_stats, rateVars, ctl>>

OtherRelease ==
    /\ write_lock = "other"
    /\ write_lock' = "free"
    /\ UNCHANGED <<codecVars, unitVars, probeVars, linkVars, gen_running, gen, tokens,
                   last_token_update, gen_stats, rateVars, ctl>>

(***************************************************************************)
(* The thread that runs a test: P900Tester.run_baseline_test and           *)
(* run_traffic_test, a KeyboardInterrupt during the measurement, and       *)
(* ComponentIntegrator.cleanup with ProbeInjector.stop.                    *)
(***************************************************************************)
\* ProbeInjector.start(): self.running = True and the three threads
CtlStartProbes ==
    /\ ctl.pc = "init"
    /\ running' = TRUE
    /\ inj' = [inj EXCEPT !.pc = "begin"]
    /\ rcv' = [rcv EXCEPT !.pc = "loop"]
    /\ rsp' = [rsp EXCEPT !.pc = "loop"]
    /\ ctl' = [ctl EXCEPT !.pc = "probing"]
    /\ UNCHANGED <<codecVars, unitVars, probe_id_counter, records, pending_probes, probe_history,
                   stats, last_rtt_values, last_statistics, appended, linkVars, genVars>>

\* traffic_thread = Thread(target=traffic_simulator.start); traffic_thread.start()
CtlStartTraffic ==
    /\ ctl.pc = "probing"
    /\ gen' = [gen EXCEPT !.pc = "start"]
    /\ ctl' = [ctl EXCEPT !.pc = "measuring"]
    /\ UNCHANGED <<codecVars, unitVars, probeVars, linkVars, gen_running, write_lock, tokens,
                   last_token_update, gen_stats, rateVars>>

\* after time.sleep(duration): traffic_simulator.stop()
CtlStopTraffic ==
    /\ ctl.pc = "measuring"
    /\ gen_running' = FALSE
    /\ ctl' = [ctl EXCEPT !.pc = "traffic_stopped"]
    /\ UNCHANGED <<codecVars, unitVars, probeVars, linkVars, gen, write_lock, tokens,
                   last_token_update, gen_stats, rateVars>>

\* stats = probe_injector.get_statistics(), then cleanup follows
CtlGetStatistics ==
    /\ ctl.pc \in {"probing", "traffic_stopped"}
    /\ last_statistics' = get_statistics
    /\ ctl' = [ctl EXCEPT !.pc = "cleanup"]
    /\ UNCHANGED <<codecVars, unitVars, running, probe_id_counter, records, pending_probes,
                   probe_history, stats, last_rtt_values, inj, rcv, rsp, appended,
                   linkVars, genVars>>

\* KeyboardInterrupt during the measurement: main() calls cleanup()
CtlInterrupt ==
    /\ ctl.pc \in {"probing", "measuring"}
    /\ ctl' = [ctl EXCEPT !.pc = "cleanup"]
    /\ UNCHANGED <<codecVars, unitVars, probeVars, linkVars, genVars>>

\* cleanup(): probe_injector.stop(): self.running = False
CtlStopProbes ==
    /\ ctl.pc = "cleanup"
    /\ running' = FALSE
    /\ ctl' = [ctl EXCEPT !.pc = "join_injection"]
    /\ UNCHANGED <<codecVars, unitVars, probe_id_counter, records, pending_probes, probe_history,
                   stats, last_rtt_values, inj, rcv, rsp,
                   last_statistics, appended, linkVars,
                   genVars>>

\* stop(): the joins.  A loop pass takes about 0.1 ms and the join waits 1 s,
\* so each join returns with its thread ended.
CtlJoinInjection ==
    /\ ctl.pc = "join_injection"
    /\ inj.pc = "done"
    /\ ctl' = [ctl EXCEPT !.pc = "join_receiver"]
    /\ UNCHANGED <<codecVars, unitVars, probeVars, linkVars, genVars>>

CtlJoinReceiver ==
    /\ ctl.pc = "join_receiver"
    /\ rcv.pc = "done"
    /\ ctl' = [ctl EXCEPT !.pc = "join_responder"]
    /\ UNCHANGED <<codecVars, unitVars, probeVars, linkVars, genVars>>

CtlJoinResponder ==
    /\ ctl.pc = "join_responder"
    /\ rsp.pc = "done"
    /\ ctl' = [ctl EXCEPT !.pc = "stop_traffic"]
    /\ UNCHANGED <<codecVars, unitVars, probeVars, linkVars, genVars>>

\* cleanup(): traffic_simulator.stop(): self.running = False, and no join
CtlCleanupStopTraffic ==
    /\ ctl.pc = "stop_traffic"
    /\ gen_running' = FALSE
    /\ ctl' = [ctl EXCEPT !.pc = "close_master"]
    /\ UNCHANGED <<codecVars, unitVars, probeVars, linkVars, gen, write_lock, tokens,
                   last_token_update, gen_stats, rateVars>>

\* cleanup(): master_serial.close()
CtlCloseMaster ==
    /\ ctl.pc = "close_master"
    /\ master_open' = FALSE
    /\ ctl' = [ctl EXCEPT !.pc = "close_slave"]
    /\ UNCHANGED <<codecVars, unitVars, probeVars, now, m2s, s2m, slave_open, master_writers,
                   link, genVars>>

\* cleanup(): slave_serial.close()
CtlCloseSlave ==
    /\ ctl.pc = "close_slave"
    /\ slave_open' = FALSE
    /\ ctl' = [ctl EXCEPT !.pc = "finished"]
    /\ UNCHANGED <<codecVars, unitVars, probeVars, now, m2s, s2m, master_open, master_writers,
                   link, genVars>>

(***************************************************************************)
(* The thread of the traffic simulator's own main: t.start(); sleep;       *)
(* sim.stop(); t.join().                                                   *)
(***************************************************************************)
MainStartThread ==
    /\ ctl.pc = "init"
    /\ gen' = [gen EXCEPT !.pc = "start"]
    /\ ctl' = [ctl EXCEPT !.pc = "sleeping"]
    /\ UNCHANGED <<codecVars, unitVars, probeVars, linkVars, gen_running, write_lock, tokens,
                   last_token_update, gen_stats, rateVars>>

MainStop ==
    /\ ctl.pc = "sleeping"
    /\ gen_running' = FALSE
    /\ ctl' = [ctl EXCEPT !.pc = "joining"]
    /\ UNCHANGED <<codecVars, unitVars, probeVars, linkVars, gen, write_lock, tokens,
                   last_token_update, gen_stats, rateVars>>

MainJoin ==
    /\ ctl.pc = "joining"
    /\ gen.pc = "done"
    /\ ctl' = [ctl EXCEPT !.pc = "joined"]
    /\ UNCHANGED <<codecVars, unitVars, probeVars, linkVars, genVars>>

(***************************************************************************)
(* MAVLinkProfile: construction, load_profile, get_packet_sizes; and       *)
(* ProbeInjector._get_next_packet_size.  Probabilities and weights are in  *)
(* ten-thousandths.                                                        *)
(***************************************************************************)
DefaultMinSize == 13     \* statistics.get('min_size', 13)
DefaultMaxSize == 82     \* statistics.get('max_size', 82)
DistributionCap == 82    \* min(info['max_bytes'], 82)
CommonShare == 7000      \* random.random() < 0.7
ListLength == 10         \* representative sizes: [:10] and len(...) < 10
FillWidth == 10          \* the fill of the representative sizes draws among
                         \* the first FillWidth sizes of the range
MaxSamples == 11         \* packet sizes asked for in a run

\* _load_default_profile
DefaultDistribution ==
    << [probability |-> 2934, min_bytes |-> 0, max_bytes |-> 25,
        with_representative |-> TRUE, representative |-> 13],
       [probability |-> 2088, min_bytes |-> 25, max_bytes |-> 40,
        with_representative |-> TRUE, representative |-> 30],
       [probability |-> 4063, min_bytes |-> 40, max_bytes |-> 50,
        with_representative |-> TRUE, representative |-> 40],
       [probability |-> 96, min_bytes |-> 50, max_bytes |-> 60,
        with_representative |-> TRUE, representative |-> 55],
       [probability |-> 819, min_bytes |-> 60, max_bytes |-> 280,
        with_representative |-> TRUE, representative |-> 82] >>

DefaultMessages ==
    << [size |-> 40, weight |-> 2837], [size |-> 13, weight |-> 2060],
       [size |-> 40, weight |-> 944], [size |-> 31, weight |-> 755],
       [size |-> 21, weight |-> 494], [size |-> 44, weight |-> 426],
       [size |-> 37, weight |-> 380], [size |-> 33, weight |-> 243],
       [size |-> 52, weight |-> 189], [size |-> 53, weight |-> 163] >>

DefaultStatistics ==
    [keys |-> {"min_size", "max_size"}, min_size |-> 13, max_size |-> 82]

DefaultProfile ==
    [size_distribution |-> DefaultDistribution, packet_profiles |-> DefaultMessages,
     statistics |-> DefaultStatistics,
     representative_sizes |-> <<13, 21, 30, 31, 33, 37, 40, 44, 52, 82>>]

\* the sections of a profile file written for a different link
FileDistribution ==
    << [probability |-> 5000, min_bytes |-> 10, max_bytes |-> 20,
        with_representative |-> FALSE, representative |-> 0],
       [probability |-> 5000, min_bytes |-> 20, max_bytes |-> 90,
        with_representative |-> FALSE, representative |-> 0] >>

FileMessages == << [size |-> 15, weight |-> 6000], [size |-> 95, weight |-> 4000] >>

FileStatistics ==
    [keys |-> {"min_size", "max_size"}, min_size |-> 10, max_size |-> 90]

AllSections == {"size_distribution", "common_messages", "statistics"}

\* what is found at profile_path: nothing, a file that is not JSON, or a JSON
\* object with some of the three sections; bad_entry: the second entry of
\* common_messages has no 'size'
Files ==
    { [kind |-> "absent"], [kind |-> "malformed"] }
    \cup { [kind |-> "json", sections |-> secs, bad_entry |-> FALSE] :
              secs \in {{}, {"statistics"}, AllSections} }
    \cup { [kind |-> "json", sections |-> AllSections, bad_entry |-> TRUE] }

\* statistics.get(key, default)
Get(dict, key, default) == IF key \in dict.keys THEN dict[key] ELSE default

RECURSIVE Sorted(_)
\* sorted(list(sizes))
Sorted(sizes) ==
    IF sizes = {} THEN <<>>
    ELSE LET least == CHOOSE x \in sizes : \A y \in sizes : x <= y
         IN <<least>> \o Sorted(sizes \ {least})

Elements(list) == {list[i] : i \in DOMAIN list}

Head10(list) == SubSeq(list, 1, Min(Len(list), ListLength))

\* _generate_representative_sizes: the lists it can leave in
\* self.representative_sizes.  The while loop adds random sizes of the
\* statistics' range that are not in the list yet, until there are ten.
GenerateRepresentativeSizes(packet_profiles, size_distribution, statistics) ==
    LET fromMessages == {m.size : m \in Elements(Head10(packet_profiles))}
        fromCategories == {c.representative :
                             c \in {d \in Elements(size_distribution) :
                                      d.with_representative}}
        first == Elements(Head10(Sorted(fromMessages \cup fromCategories)))
        lo == Get(statistics, "min_size", DefaultMinSize)
        hi == Get(statistics, "max_size", DefaultMaxSize)
        draws == (lo..Min(hi, lo + FillWidth - 1)) \ first
    IN  { Sorted(first \cup added) :
            added \in {a \in SUBSET draws :
                         Cardinality(a) = ListLength - Cardinality(first)} }

\* load_profile: the attributes it can leave behind.  An exception (json.load
\* on a file that is not JSON, info['size'] on an entry without it) ends the
\* method in its except branch, with what was assigned until then.
load_profile(file, attrs) ==
    IF file.kind = "malformed" THEN {attrs}
    ELSE
      LET dist == IF "size_distribution" \in file.sections
                  THEN FileDistribution ELSE attrs.size_distribution
          messages == IF "common_messages" \in file.sections
                      THEN (IF file.bad_entry
                            THEN SubSeq(FileMessages, 1, 1) ELSE FileMessages)
                      ELSE attrs.packet_profiles
          statistics == IF "statistics" \in file.sections
                        THEN FileStatistics ELSE attrs.statistics
      IN IF file.bad_entry
         THEN {[attrs EXCEPT !.size_distribution = dist, !.packet_profiles = messages]}
         ELSE {[size_distribution |-> dist, packet_profiles |-> messages,
                statistics |-> statistics, representative_sizes |-> sizes] :
                  sizes \in GenerateRepresentativeSizes(messages, dist, statistics)}

\* MAVLinkProfile.__init__(profile_path)
Construct ==
    /\ ~prof.built
    /\ \E attrs \in (IF prof.file.kind = "absent"
                     THEN {DefaultProfile} ELSE load_profile(prof.file, Unloaded)) :
          prof' = [prof EXCEPT !.built = TRUE, !.attrs = attrs]
    /\ UNCHANGED <<codecVars, sizer, lat, systemVars>>

\* the values of random.random()
Draws == {0, 2500, 5000, 6999, 7000, 9100, 9999}

RECURSIVE Cumulative(_, _)
\* cumulative, after the first n categories
Cumulative(dist, n) ==
    IF n = 0 THEN 0 ELSE Cumulative(dist, n - 1) + dist[n].probability

\* random.choice(self.representative_sizes); no sample: IndexError
RepresentativeSamples(attrs) == Elements(attrs.representative_sizes)

\* random.randint(min_size, max_size); no sample: ValueError
RandomSamples(attrs) ==
    Get(attrs.statistics, "min_size", DefaultMinSize)
        .. Get(attrs.statistics, "max_size", DefaultMaxSize)

\* _sample_from_distribution with r drawn
SampleFromDistribution(attrs, r) ==
    LET dist == attrs.size_distribution
        hits == {n \in DOMAIN dist : r < Cumulative(dist, n)}
    IN  IF hits # {}
        THEN LET n == CHOOSE x \in hits : \A y \in hits : x <= y
             IN dist[n].min_bytes .. Min(dist[n].max_bytes, DistributionCap)
        ELSE RepresentativeSamples(attrs)

\* random.choices(self.packet_profiles, weights)[0].size
WeightedSamples(attrs) ==
    {m.size : m \in {x \in Elements(attrs.packet_profiles) : x.weight > 0}}

\* the realistic branch of get_packet_sizes
RealisticSamples(attrs) ==
    UNION { IF r < CommonShare /\ attrs.packet_profiles # <<>>
            THEN WeightedSamples(attrs)
            ELSE UNION {SampleFromDistribution(attrs, r2) : r2 \in Draws} :
            r \in Draws }

\* get_packet_sizes(1, mode)[0]: the sizes it can return
PacketSizeSamples(attrs, mode) ==
    CASE mode = "representative" -> RepresentativeSamples(attrs)
      [] mode = "random" -> RandomSamples(attrs)
      [] OTHER -> RealisticSamples(attrs)

Modes == {"representative", "random", "realistic"}

\* a caller takes the profile and asks it for sizes itself
NewCaller ==
    /\ prof.built
    /\ sizer.pc = "idle"
    /\ \E mode \in Modes :
          sizer' = [sizer EXCEPT !.pc = "ready", !.who = "caller", !.mode = mode]
    /\ UNCHANGED <<codecVars, prof, lat, systemVars>>

\* ProbeInjector.__init__(..., size_mode, fixed_size): self.variable_sizes
NewInjector ==
    /\ prof.built
    /\ sizer.pc = "idle"
    /\ \E mode \in Modes \cup {"fixed"} :
          sizer' = [sizer EXCEPT
                      !.pc = "ready", !.who = "injector", !.mode = mode,
                      !.variable_sizes =
                          CASE mode = "representative" -> prof.attrs.representative_sizes
                            [] mode = "fixed" -> <<FixedSize>>
                            [] OTHER -> <<>>]
    /\ UNCHANGED <<codecVars, prof, lat, systemVars>>

\* the sample is handed out, or the call raised
Sampled(samples) ==
    /\ sizer.k < MaxSamples
    /\ IF samples = {}
       THEN sizer' = [sizer EXCEPT !.pc = "raised"]
       ELSE \E size \in samples :
               sizer' = [sizer EXCEPT !.pc = "sampled", !.k = @ + 1, !.size = size]

\* profile.get_packet_sizes(1, mode)
GetPacketSizes ==
    /\ sizer.pc \in {"ready", "sampled"}
    /\ sizer.who = "caller"
    /\ Sampled(PacketSizeSamples(prof.attrs, sizer.mode))
    /\ UNCHANGED <<codecVars, prof, lat, systemVars>>

\* ProbeInjector._get_next_packet_size
GetNextPacketSize ==
    /\ sizer.pc \in {"ready", "sampled"}
    /\ sizer.who = "injector"
    /\ sizer.k < MaxSamples
    /\ CASE sizer.mode = "representative" /\ sizer.variable_sizes # <<>> ->
              sizer' = [sizer EXCEPT
                          !.pc = "sampled", !.k = @ + 1,
                          !.size = sizer.variable_sizes[sizer.current_size_index + 1],
                          !.current_size_index = (@ + 1) % Len(sizer.variable_sizes)]
         [] sizer.mode \in {"realistic", "random"} ->
              Sampled(PacketSizeSamples(prof.attrs, sizer.mode))
         [] OTHER ->
              sizer' = [sizer EXCEPT !.pc = "sampled", !.k = @ + 1, !.size = FixedSize]
    /\ UNCHANGED <<codecVars, prof, lat, systemVars>>

SizeInit ==
    /\ CodecIdle
    /\ SystemIdle
    /\ prof \in [built : {FALSE}, file : Files, attrs : {Unloaded}]
    /\ sizer = [pc |-> "idle", who |-> "nobody", mode |-> "fixed", variable_sizes |-> <<>>,
                current_size_index |-> 0, k |-> 0, size |-> 0]
    /\ lat = LatIdle

SizeNext == Construct \/ NewCaller \/ NewInjector \/ GetPacketSizes \/ GetNextPacketSize

SizeSpec == SizeInit /\ [][SizeNext]_vars

(***************************************************************************)
(* Specifications.                                                         *)
(***************************************************************************)
Init == CodecIdle /\ UnitIdle /\ SystemIdle

InjectionThread ==
    InjBegin \/ InjLoop \/ InjSend \/ InjRegister \/ InjSweep
ReceiverThread == RcvLoop \/ RcvScan
ResponderThread == RspLoop \/ RspScan
TrafficThread ==
    GenStart \/ GenLoop \/ GenSleep \/ GenAcquire \/ GenWait \/ GenWritten
AdjustThread == AdjustRateBandwidth \/ AdjustRateCapacity
LockUser == OtherAcquire \/ OtherRelease
\* the tester builds its simulator without write_lock: the Lock is the
\* simulator's own, nobody else holds it, and the timed acquire is never reached
PrivateLockTraffic == GenStart \/ GenLoop \/ GenSleep \/ GenAcquire \/ GenWritten
Cleanup ==
    CtlStopProbes \/ CtlJoinInjection \/ CtlJoinReceiver \/ CtlJoinResponder
        \/ CtlCleanupStopTraffic \/ CtlCloseMaster \/ CtlCloseSlave

ProbeNext ==
    \/ CtlStartProbes \/ CtlGetStatistics \/ CtlInterrupt \/ Cleanup
    \/ InjectionThread \/ ReceiverThread \/ ResponderThread
    \/ LoseM2S \/ LoseS2M \/ Tick

\* run_traffic_test within one tick of the clock: what Spec is about is the order
\* in which the threads take their steps, and the clock stands still meanwhile
Next ==
    \/ CtlStartProbes \/ CtlStartTraffic \/ CtlStopTraffic \/ CtlGetStatistics
    \/ CtlInterrupt \/ Cleanup
    \/ InjectionThread \/ ReceiverThread \/ ResponderThread \/ PrivateLockTraffic
    \/ LoseM2S \/ LoseS2M

GenNext ==
    \/ MainStartThread \/ MainStop \/ MainJoin
    \/ TrafficThread \/ AdjustThread \/ LockUser \/ Tick

(***************************************************************************)
(* P900NetworkTesterEnhanced.measure_latency: one request and the          *)
(* measurement made of what the response queue delivers.  Timestamps are   *)
(* in microseconds, delays in thousandths of a millisecond.                *)
(***************************************************************************)
MaxStamp == 4            \* the largest timestamp of a run
NumPackets == 2          \* num_packets

\* (later - earlier) * 1000, seconds to milliseconds
DelayMs(earlier, later) == later - earlier

\* the sum of the two one-way delays
OneWayDelaysMs(resp_data) ==
    DelayMs(resp_data.t1, resp_data.t2) + DelayMs(resp_data.t3, resp_data.t4)

\* rtt_ms = (resp_data['t4'] - resp_data['t1']) * 1000
RttMs(resp_data) == DelayMs(resp_data.t1, resp_data.t4)

\* the measurement of a response whose packet_id is the request's
Measurement(resp_data) ==
    LET forward_ms == DelayMs(resp_data.t1, resp_data.t2)
        return_ms == DelayMs(resp_data.t3, resp_data.t4)
    IN  [packet_id |-> resp_data.packet_id,
         t1_master_send |-> resp_data.t1, t2_slave_receive |-> resp_data.t2,
         t3_slave_send |-> resp_data.t3, t4_master_receive |-> resp_data.t4,
         forward_delay_ms |-> forward_ms, return_delay_ms |-> return_ms,
         rtt_ms |-> RttMs(resp_data),
         processing_time_ms |-> DelayMs(resp_data.t2, resp_data.t3),
         asymmetry_ms |-> forward_ms - return_ms, status |-> "OK"]

\* what _master_receiver_loop puts into response_queue
Responses ==
    [packet_id : 0..(NumPackets - 1), t1 : 0..MaxStamp, t2 : 0..MaxStamp, t3 : 0..MaxStamp,
     t4 : 0..MaxStamp]

\* for packet_id in range(num_packets): t1 = time.perf_counter(); the request
\* is written
LatSend ==
    /\ \/ lat.pc = "idle"
       \/ lat.pc = "measured" /\ lat.packet_id + 1 < NumPackets
    /\ \E t1 \in 0..MaxStamp :
          lat' = [pc |-> "waiting",
                  packet_id |-> IF lat.pc = "idle" THEN 0 ELSE lat.packet_id + 1,
                  t1 |-> t1, measurement |-> Unanswered(0, 0, "NONE"),
                  measurements |-> lat.measurements, jitter |-> None,
                  under_way |-> lat.under_way,
                  response_queue |-> lat.response_queue, own |-> FALSE]
    /\ UNCHANGED <<codecVars, prof, sizer, systemVars>>

\* self.measurements.append(measurement)
Appended(measurements, measurement) ==
    Append(measurements, [status |-> measurement.status,
                          forward_delay_ms |-> measurement.forward_delay_ms,
                          rtt_ms |-> measurement.rtt_ms])

\* response_queue.get(timeout=1.0) delivers a response
LatResponse ==
    /\ lat.pc = "waiting"
    /\ \E resp_data \in Responses :
          LET measurement == IF resp_data.packet_id = lat.packet_id
                             THEN Measurement(resp_data)
                             ELSE Unanswered(lat.packet_id, lat.t1, "MISMATCH")
          IN  lat' = [lat EXCEPT !.pc = "measured",
                                 !.measurement = measurement,
                                 !.measurements = Appended(@, measurement)]
    /\ UNCHANGED <<codecVars, prof, sizer, systemVars>>

\* response_queue.get(timeout=1.0) raises queue.Empty
LatTimeout ==
    /\ lat.pc = "waiting"
    /\ lat' = [lat EXCEPT !.pc = "measured",
                          !.measurement = Unanswered(lat.packet_id, lat.t1, "TIMEOUT"),
                          !.measurements =
                              Appended(@, Unanswered(lat.packet_id, lat.t1, "TIMEOUT"))]
    /\ UNCHANGED <<codecVars, prof, sizer, systemVars>>

\* get_statistics() after measure_latency has returned: the 'jitter' entry,
\* which the dict has when some measurement is OK
LatGetStatistics ==
    /\ lat.pc = "measured"
    /\ lat.packet_id + 1 = NumPackets
    /\ LET ok == SelectSeq(lat.measurements, LAMBDA m : m.status = "OK")
           \* [abs(ok[i].forward_delay_ms - ok[i-1].forward_delay_ms) for i in ...]
           jitter == [i \in 1..(Len(ok) - 1) |->
                         Abs(ok[i + 1].forward_delay_ms - ok[i].forward_delay_ms)]
       IN  lat' = [lat EXCEPT
                     !.pc = "reported",
                     !.jitter =
                         IF ok = <<>> THEN None
                         ELSE [valid |-> TRUE,
                               mean |-> IF jitter # <<>> THEN Mean(jitter) ELSE Zero,
                               max |-> IF jitter # <<>> THEN SeqMax(jitter) ELSE 0]]
    /\ UNCHANGED <<codecVars, prof, sizer, systemVars>>

LatencyNext == LatSend \/ LatResponse \/ LatTimeout \/ LatGetStatistics

LatencySpec == Init /\ [][LatencyNext]_vars

ProbeSpec == Init /\ [][ProbeNext]_vars

\* the operating system runs every thread that can run
FairProbeSpec == ProbeSpec /\ WF_vars(InjectionThread)

Spec == Init /\ [][Next]_vars

GenSpec == Init /\ [][GenNext]_vars

FairGenSpec == GenSpec /\ WF_vars(TrafficThread)

(***************************************************************************)
(* The encoded header's last byte against the XOR of the 23 before it.     *)
(***************************************************************************)
ChecksumMatches(data) ==
    data[PROBE_HEADER_SIZE] = XorAll(SubSeq(data, 1, PROBE_HEADER_SIZE - 1))

(***************************************************************************)
(* C9: for every probe_id, type, timestamp and size >= header size,        *)
(* parsing the packet _create_probe_packet built gives back the same       *)
(* probe_id, type and timestamp in whole microseconds, and the packet is   *)
(* exactly size bytes long.                                                *)
(***************************************************************************)
RoundTrip ==
    (c_pc = "decoded" /\ ~flipped /\ c_in.packet_size >= PROBE_HEADER_SIZE)
        => /\ parsed.valid
           /\ parsed.probe_id = c_in.probe_id
           /\ parsed.type = c_in.packet_type
           /\ parsed.timestamp.us = c_in.timestamp.us
           /\ Len(packet) = c_in.packet_size

RoundTripReached ==
    /\ c_pc = "decoded"
    /\ ~flipped
    /\ c_in.packet_size > PROBE_HEADER_SIZE
    /\ c_in.probe_id = <<187, 1>>
    /\ c_in.timestamp = [us |-> <<54321, 18, 0, 0>>, ns |-> 999, quotient |-> FALSE]
    /\ parsed.valid
    /\ parsed.timestamp # c_in.timestamp

(***************************************************************************)
(* C10: _parse_probe_packet returns None for fewer than header-size bytes, *)
(* for a marker that does not match and for a header checksum that does    *)
(* not match; a packet with one header byte changed parses to None.        *)
(***************************************************************************)
DecodeRejects ==
    c_pc = "decoded"
        => ((\/ Len(packet) < PROBE_HEADER_SIZE
             \/ ~MarkerMatches(packet)
             \/ ~ChecksumMatches(packet)) => ~parsed.valid)

Resolved(i) == records[i].status \in {"RECEIVED", "TIMEOUT"}

ResolvedOnce ==
    /\ [](\A i \in DOMAIN records :
            /\ records[i].status \in {"NONE", "PENDING", "RECEIVED", "TIMEOUT"}
            /\ (i \in pending_probes) <=> (records[i].status = "PENDING")
            /\ appended[i] = IF Resolved(i) THEN 1 ELSE 0)
    /\ [][\A i \in DOMAIN records :
            /\ Resolved(i) => records'[i] = records[i]
            /\ records[i].status = "PENDING"
                   => records'[i].status \in {"PENDING", "RECEIVED", "TIMEOUT"}]_vars

\* both ways out of PENDING were taken, and with nothing lost on the link the
\* response to the timed-out probe was read and found no pending entry
ResolvedOnceReached ==
    /\ records[0].status = "TIMEOUT"
    /\ records[1].status = "RECEIVED"
    /\ ~link.lost
    /\ m2s = <<>> /\ s2m = <<>>
    /\ rsp.pc = "loop" /\ rsp.buffer = <<>>
    /\ rcv.pc = "loop" /\ rcv.buffer = <<>>


(***************************************************************************)
(* C1: on a loopback that loses and damages nothing and brings every       *)
(* packet across before the clock moves on (a delay below timeout_ms), no  *)
(* probe the injector sent is marked TIMEOUT.                              *)
(***************************************************************************)
LoopbackNoTimeout ==
    (~link.lost /\ ~link.late /\ ~link.interleaved)
        => \A i \in DOMAIN records : records[i].status # "TIMEOUT"

(***************************************************************************)
(* C3: while the exchange runs, a state in which pending_probes holds an   *)
(* entry older than the timeout is followed by one in which it holds none: *)
(* a pass of _check_timeouts leaves no such entry, and every entry it      *)
(* removes is TIMEOUT.                                                     *)
(***************************************************************************)
Expired(i) == i \in pending_probes /\ now - records[i].timestamp_sent > TimeoutTicks

MasterWritesSerialised == ~link.interleaved

(***************************************************************************)
(* C5: a serial channel is closed only when the injection, receiver,       *)
(* responder and traffic loops have all ended.                             *)
(***************************************************************************)
\* no thread is inside its loop
LoopsEnded ==
    /\ inj.pc \in {"idle", "begin", "done"}
    /\ rcv.pc \in {"idle", "done"}
    /\ rsp.pc \in {"idle", "done"}
    /\ gen.pc \in {"idle", "start", "done"}

ClosedAfterLoopsEnded == (~master_open \/ ~slave_open) => LoopsEnded

(***************************************************************************)
(* C6: once stop() has been called, the generation loop sees the flag and  *)
(* start() returns with the generator stopped, however the thread that     *)
(* runs start() and the thread that calls stop() interleave.               *)
(***************************************************************************)
StopEndsGenerator == (ctl.pc = "joining") ~> (gen.pc = "done" /\ ~gen_running)

(***************************************************************************)
(* The token bucket of the traffic simulator.                              *)
(***************************************************************************)
\* a pass of _run_loop that calls _consume_tokens
ConsumePass == gen.pc = "loop" /\ gen_running /\ gen'.pc # "loop"

\* C11: _consume_tokens(n) refills the bucket first.  When the refilled bucket
\* holds at least n, exactly n is taken and the call returns True (the packet
\* goes on to be sent); when it holds less, nothing is taken and the call
\* returns False (the pass is rate limited).  self.tokens is never negative.
TokensConserved ==
    /\ [](tokens >= 0)
    /\ [][ConsumePass =>
            IF UpdatedTokens >= Tenths(TrafficPacketSize)
            THEN tokens' = UpdatedTokens - Tenths(TrafficPacketSize)
                 /\ gen'.pc = "acquire"
            ELSE tokens' = UpdatedTokens /\ gen'.pc = "sleep"]_vars

\* a call has just returned False with something left in the bucket, after
\* an earlier call had returned True and its packet was written
ConsumedAndRefused ==
    gen.pc = "sleep" /\ gen_stats.packets_sent > 0 /\ tokens > 0

\* C12, as the claim states it: self.tokens is at most the capacity in every
\* state, the states right after adjust_rate included.
TokensWithinCapacity == tokens <= Capacity

\* what the bucket would hold after elapsed * target_bandwidth is added
Refilled == tokens + (now - last_token_update) * Tenths(target_bandwidth)

\* C12, amended: every pass that refills leaves self.tokens at most the
\* capacity; a refill adds elapsed * target_bandwidth and stops at the
\* capacity, so that a pass that consumes nothing leaves the bucket at the
\* capacity as soon as the elapsed time has made up for it; and the bucket
\* is above the capacity only after adjust_rate has lowered the capacity,
\* until the next refill.
RefillSaturates ==
    /\ [][ConsumePass =>
            /\ tokens' <= Capacity
            /\ gen'.pc = "sleep" =>
                  tokens' = IF Refilled >= Capacity THEN Capacity ELSE Refilled]_vars
    /\ [][tokens' > Capacity' => (tokens > Capacity \/ Capacity' < Capacity)]_vars

\* adjust_rate has lowered the capacity below what the bucket held, and a
\* refill that consumed nothing has since brought the bucket to the capacity
SaturatedAfterAdjust ==
    /\ gen.pc = "sleep"
    /\ adj.pc = "idle"
    /\ bucket_capacity < TargetBandwidth
    /\ last_token_update = now
    /\ tokens = Capacity

\* C13: adjust_rate changes target_bandwidth and bucket_capacity as one step
\* for the generator thread, so that every refill computes with a rate and a
\* capacity that belong together (adjust_rate sets both to new_bw), and a
\* step of adjust_rate leaves self.tokens as it is.
AdjustRateAtomic ==
    /\ [][ConsumePass => bucket_capacity = target_bandwidth]_vars
    /\ [][adj' # adj => tokens' = tokens]_vars

(***************************************************************************)
(* The generator and the lock it writes under.                             *)
(***************************************************************************)
\* the acquire with a timeout has returned without the lock
WaitTimedOut == gen.pc = "wait" /\ gen'.pc = "loop"

\* C14: _send_packet_safe never waits for write_lock without a bound.  A
\* failed first acquire is counted in write_conflicts; when the acquire with
\* a timeout fails too, nothing is written and the lock is left alone, and
\* the thread is back at the head of its loop; there it sees a stop request
\* and ends, whoever holds the lock and for however long.
BoundedLockWait ==
    /\ [](gen.pc = "wait" => gen_stats.write_conflicts > 0)
    /\ [][gen.pc = "acquire" /\ gen'.pc = "wait" =>
            gen_stats'.write_conflicts = Count(gen_stats.write_conflicts)]_vars
    /\ [][WaitTimedOut =>
            /\ m2s' = m2s /\ write_lock' = write_lock
            /\ gen_stats' = gen_stats /\ master_writers' = master_writers]_vars
    /\ (gen.pc \in {"acquire", "wait"}) ~> (gen.pc \in {"write", "loop"})
    /\ (gen.pc \in {"acquire", "wait"} /\ ~gen_running) ~> (gen.pc = "done")

\* the lock is still held by its other user, the generator has given up its
\* wait and is back at the head of the loop: a conflict is counted, the
\* packet's tokens are spent, and nothing was written
WaitGivenUp ==
    /\ gen.pc = "loop"
    /\ write_lock = "other"
    /\ gen_stats.write_conflicts > 0
    /\ gen_stats.packets_sent = 0 /\ gen_stats.errors = 0
    /\ m2s = <<>>

(***************************************************************************)
(* Packet sizes.                                                           *)
(***************************************************************************)
\* C15: in each of the modes representative, random and realistic, every packet
\* size handed out lies between min_size and max_size of the profile's
\* statistics.
SamplesWithinBounds ==
    (sizer.pc = "sampled" /\ sizer.mode \in Modes) =>
        /\ sizer.size >= Get(prof.attrs.statistics, "min_size", DefaultMinSize)
        /\ sizer.size <= Get(prof.attrs.statistics, "max_size", DefaultMaxSize)

\* C16: in representative mode the sizes handed out run through the list of
\* representative sizes in its order and start again at its head: the k-th
\* size, counting from 0, is list[k mod n].
RepresentativeCycles ==
    (sizer.pc = "sampled" /\ sizer.mode = "representative") =>
        LET list == prof.attrs.representative_sizes
        IN  /\ list # <<>>
            /\ sizer.size = list[((sizer.k - 1) % Len(list)) + 1]

\* a profile file that is not JSON, lacks a section, or has an entry without
\* its size
Incomplete(file) ==
    \/ file.kind = "malformed"
    \/ file.kind = "json" /\ (file.sections # AllSections \/ file.bad_entry)

\* C17: a MAVLinkProfile built from a malformed or incomplete profile file is
\* built without an error and holds the built-in default profile: its size
\* distribution, common messages, statistics and representative sizes.
IncompleteYieldsDefault ==
    (prof.built /\ Incomplete(prof.file)) => prof.attrs = DefaultProfile

(***************************************************************************)
(* The four timestamps of measure_latency.                                 *)
(***************************************************************************)
\* C18: a measurement with status OK has forward delay t2 - t1, return delay
\* t4 - t3, round trip t4 - t1, processing time t3 - t2 and asymmetry forward
\* minus return, so that the round trip is the sum of forward delay,
\* processing time and return delay.
FourTimestamps ==
    (lat.pc = "measured" /\ lat.measurement.status = "OK") =>
        LET m == lat.measurement IN
        /\ m.forward_delay_ms = m.t2_slave_receive - m.t1_master_send
        /\ m.return_delay_ms = m.t4_master_receive - m.t3_slave_send
        /\ m.rtt_ms = m.t4_master_receive - m.t1_master_send
        /\ m.processing_time_ms = m.t3_slave_send - m.t2_slave_receive
        /\ m.asymmetry_ms = m.forward_delay_ms - m.return_delay_ms
        /\ m.rtt_ms = m.forward_delay_ms + m.processing_time_ms + m.return_delay_ms

\* an OK measurement whose three parts are all positive and whose two one-way
\* delays differ
FourTimestampsMeasured ==
    /\ lat.pc = "measured"
    /\ lat.measurement.status = "OK"
    /\ lat.measurement.forward_delay_ms > 0
    /\ lat.measurement.processing_time_ms > 0
    /\ lat.measurement.return_delay_ms > lat.measurement.forward_delay_ms

(***************************************************************************)
(* The injector's table of pending probes and the receiver.                *)
(***************************************************************************)
\* the pass _receiver_loop is about to make parses a valid response to probe i
ResponseAtHand(i) ==
    /\ rcv.pc = "scan"
    /\ LET parsed_packet == ScanPass(rcv.buffer).parsed
       IN  /\ parsed_packet.valid
           /\ parsed_packet.type = PROBE_TYPE_RESPONSE
           /\ parsed_packet.probe_id = ToLimbs(i, 2)

\* C19: the injector puts a probe into pending_probes before it writes the
\* request, so that the entry is there when the request goes out, and the
\* receiver never handles a response to a probe that was sent and has not
\* been entered.
PendingBeforeWrite ==
    /\ [][(inj.pc = "send" /\ inj'.pc = "register")
              => probe_id_counter \in pending_probes]_vars
    /\ [][\A i \in DOMAIN records :
              (ResponseAtHand(i) /\ rcv' # rcv) => records[i].status # "NONE"]_vars

\* C20: when the receiver handles a valid response whose probe is in
\* pending_probes, the record gets rtt = receive time - timestamp_sent and
\* jitter = |rtt - the rtt recorded before it| (0 when there is none), its
\* status becomes RECEIVED, it is appended to probe_history and taken out of
\* pending_probes, and total_received grows by one.
ResponseRecorded ==
    [][\A i \in DOMAIN records :
          (ResponseAtHand(i) /\ rcv' # rcv /\ i \in pending_probes) =>
              LET rtt == now - records[i].timestamp_sent
                  last == Len(last_rtt_values)
              IN  /\ records'[i].rtt_ms = rtt
                  /\ records'[i].jitter_ms =
                         IF last = 0 THEN 0
                         ELSE IF rtt >= last_rtt_values[last]
                              THEN rtt - last_rtt_values[last]
                              ELSE last_rtt_values[last] - rtt
                  /\ records'[i].status = "RECEIVED"
                  /\ records'[i].timestamp_received = now
                  /\ probe_history' # <<>>
                  /\ probe_history'[Len(probe_history')] = i
                  /\ appended'[i] = appended[i] + 1
                  /\ pending_probes' = pending_probes \ {i}
                  /\ stats'.total_received = stats.total_received + 1]_vars

\* two responses were recorded, the second with a shorter round trip than
\* the first and so with a jitter above 0
ResponseRecordedReached ==
    /\ records[0].status = "RECEIVED"
    /\ records[1].status = "RECEIVED"
    /\ records[1].rtt_ms < records[0].rtt_ms
    /\ records[1].jitter_ms > 0
    /\ stats.total_received = 2

\* the pass _receiver_loop is about to make parses a valid response whose
\* probe_id is no key of pending_probes
StrayResponseAtHand ==
    /\ rcv.pc = "scan"
    /\ LET parsed_packet == ScanPass(rcv.buffer).parsed
       IN  /\ parsed_packet.valid
           /\ parsed_packet.type = PROBE_TYPE_RESPONSE
           /\ \A i \in pending_probes : ToLimbs(i, 2) # parsed_packet.probe_id

\* C21: when the receiver handles a valid response whose probe_id is not in
\* pending_probes (timed out, received before, or never entered), the response
\* is dropped: pending_probes, probe_history, the records, the counters and
\* size_stats in self.stats, and last_rtt_values are left as they were.
StrayResponseDiscarded ==
    [][(StrayResponseAtHand /\ rcv' # rcv) =>
          /\ pending_probes' = pending_probes
          /\ probe_history' = probe_history
          /\ records' = records
          /\ appended' = appended
          /\ stats' = stats
          /\ last_rtt_values' = last_rtt_values]_vars

\* probe 0 has timed out and probe 1 is pending; nothing was lost on the link,
\* both requests were answered and one response is still under way, so the
\* response to probe 0 came after the sweep and was dropped
StrayResponseDropped ==
    /\ records[0].status = "TIMEOUT"
    /\ records[1].status = "PENDING"
    /\ stats.total_received = 0
    /\ stats.size_stats = [sent |-> 2, received |-> 0, lost |-> 1, total_rtt |-> 0]
    /\ ~link.lost
    /\ rsp.pc = "loop" /\ rsp.buffer = <<>> /\ m2s = <<>>
    /\ rcv.pc = "loop" /\ rcv.buffer = <<>>
    /\ Len(s2m) = 1

(***************************************************************************)
(* The injector's ticks.                                                   *)
(***************************************************************************)
\* C22: a tick of the injector that finds the write lock held by another
\* writer writes nothing to the Master channel and enters no probe; the tick
\* is dropped, and the next one stays due one interval after this one.
TickSkippedWhenLockHeld ==
    [][(inj.pc = "send" /\ inj' # inj /\ write_lock # "free") =>
          /\ m2s' = m2s
          /\ inj'.pc = "sweep"
          /\ inj'.next_probe_time = inj.current_time + IntervalTicks]_vars


\* the step of _injection_loop that sets next_probe_time after a due probe
Rescheduled == inj.pc \in {"send", "register"} /\ inj'.pc = "sweep"

\* C23: the injector runs by the timer.  After a tick the next one is due at
\* max(now, the time this tick was due + interval): the time it took to
\* notice the tick and to send the probe does not move the later ticks.
TimerDriven ==
    [][Rescheduled =>
          inj'.next_probe_time = Max(now, inj.next_probe_time + IntervalTicks)]_vars


(***************************************************************************)
(* The responder.                                                          *)
(***************************************************************************)
\* C24: a pass of _slave_responder_loop that parses a request writes one
\* response to the Slave channel, with the request's probe_id, the request's
\* timestamp field and the request's declared size; a pass that parses a
\* response, or parses nothing, writes nothing.
RequestAnsweredOnce ==
    [][(rsp.pc = "scan" /\ rsp' # rsp) =>
          LET request == ScanPass(rsp.buffer).parsed
          IN  IF request.valid /\ request.type = PROBE_TYPE_REQUEST
              THEN /\ Len(s2m') = Len(s2m) + 1
                   /\ SubSeq(s2m', 1, Len(s2m)) = s2m
                   /\ LET response == parse_probe_packet(s2m'[Len(s2m')])
                      IN  /\ response.valid
                          /\ response.type = PROBE_TYPE_RESPONSE
                          /\ response.probe_id = request.probe_id
                          /\ response.timestamp.us = request.timestamp.us
                          /\ response.size = request.size
                          /\ Len(s2m'[Len(s2m')]) = request.size
              ELSE s2m' = s2m]_vars


(***************************************************************************)
(* Framing: the receiver's reads against the writes of the other side.     *)
(* serial.read(in_waiting) returns the bytes that have arrived so far,     *)
(* wherever the writes of the other side began and ended.                  *)
(***************************************************************************)
\* a state of the exchange: every probe of the run was sent on its tick and is
\* pending, the responder has answered each, and the responses are under way
FramingInit ==
    /\ CodecIdle
    /\ UnitIdle
    /\ running = TRUE
    /\ probe_id_counter = MaxProbes
    /\ records = [i \in 0..(MaxProbes - 1) |->
                    [status |-> "PENDING", timestamp_sent |-> i * IntervalTicks,
                     timestamp_received |-> 0, packet_size |-> FixedSize,
                     rtt_ms |-> 0, jitter_ms |-> 0]]
    /\ pending_probes = 0..(MaxProbes - 1)
    /\ probe_history = <<>>
    /\ stats = [SystemStats EXCEPT !.total_sent = MaxProbes,
                                    !.bytes_sent = MaxProbes * FixedSize,
                                    !.size_stats.sent = MaxProbes]
    /\ last_rtt_values = <<>>
    /\ inj = [pc |-> "loop", next_probe_time |-> MaxProbes * IntervalTicks,
              current_time |-> 0, probe_id |-> 0, timestamp_sent |-> 0,
              probe_packet |-> <<>>]
    /\ rcv = [pc |-> "loop", buffer |-> <<>>]
    /\ rsp = [pc |-> "loop", buffer |-> <<>>]
    /\ last_statistics = None
    /\ appended = [i \in 0..(MaxProbes - 1) |-> 0]
    /\ now = (MaxProbes - 1) * IntervalTicks
    /\ m2s = <<>>
    /\ s2m = [i \in 1..MaxProbes |->
                LET request == parse_probe_packet(
                                   RequestPackets[i - 1][(i - 1) * IntervalTicks])
                IN  create_probe_packet(request.probe_id, PROBE_TYPE_RESPONSE,
                                        request.size, request.timestamp)]
    /\ master_open = TRUE
    /\ slave_open = TRUE
    /\ master_writers = {}
    /\ link = [lost |-> FALSE, late |-> TRUE, interleaved |-> FALSE]
    /\ gen_running = FALSE
    /\ gen = [pc |-> "idle", admitted |-> 0]
    /\ write_lock = "free"
    /\ tokens = 10 * TargetBandwidth
    /\ last_token_update = 0
    /\ target_bandwidth = TargetBandwidth
    /\ bucket_capacity = TargetBandwidth
    /\ adj = [pc |-> "idle", new_bw |-> TargetBandwidth]
    /\ gen_stats = [start_time |-> 0, packets_sent |-> 0, bytes_sent |-> 0, errors |-> 0,
                    rate_limited_count |-> 0, burst_count |-> 0, write_conflicts |-> 0]
    /\ ctl = [pc |-> "probing"]

\* if in_waiting > 0: buffer.extend(read(in_waiting)), with in_waiting any
\* number of the bytes under way
RcvReadSome ==
    /\ rcv.pc = "loop"
    /\ running
    /\ s2m # <<>>
    /\ LET bytes == Concat(s2m)
       IN  \E in_waiting \in 1..Len(bytes) :
               /\ rcv' = [pc |-> "scan",
                          buffer |-> rcv.buffer \o SubSeq(bytes, 1, in_waiting)]
               /\ s2m' = IF in_waiting = Len(bytes) THEN <<>>
                         ELSE <<SubSeq(bytes, in_waiting + 1, Len(bytes))>>
    /\ UNCHANGED <<codecVars, unitVars, running, probe_id_counter, records, pending_probes,
                   probe_history, stats, last_rtt_values, inj, rsp,
                   last_statistics, appended,
                   now, m2s, master_open, slave_open, master_writers, link, genVars, ctl>>

FramingSpec == FramingInit /\ [][RcvReadSome \/ RcvScan]_vars

\* C25: however the responses written on the Slave side are cut into reads on
\* the Master side, the receiver acts on a packet only when the buffer holds
\* all the bytes its size field declares, it acts on the written packets in
\* their order, and when every byte has been read and scanned it has acted on
\* each of them once.
FramedDelivery ==
    /\ [][(rcv.pc = "scan" /\ rcv' # rcv) =>
            LET marker_pos == FindMarker(rcv.buffer)
                parsed_packet == ScanPass(rcv.buffer).parsed
            IN  parsed_packet.valid =>
                    Len(rcv.buffer) - (marker_pos - 1) >= parsed_packet.size]_vars
    /\ [](\A i, j \in DOMAIN records :
            (i < j /\ records[j].status = "RECEIVED") => records[i].status = "RECEIVED")
    /\ []((s2m = <<>> /\ rcv.pc = "loop") =>
            \A i \in DOMAIN records : records[i].status = "RECEIVED" /\ appended[i] = 1)


(***************************************************************************)
(* The generator and its rate limiter.                                     *)
(***************************************************************************)
\* the refilled bucket holds enough for the packet: _consume_tokens returns True
Admitted == Min(Refilled, Capacity) >= Tenths(TrafficPacketSize)

\* C26, as the claim states it: a pass whose packet the limiter rejects
\* leaves self.tokens no lower than it was, writes nothing and adds one to
\* rate_limited_count.
RejectionKeepsTokens ==
    [][(ConsumePass /\ ~Admitted) =>
          /\ tokens' >= tokens
          /\ m2s' = m2s
          /\ gen_stats.rate_limited_count < MaxCount =>
                gen_stats'.rate_limited_count = gen_stats.rate_limited_count + 1]_vars

\* C26, amended: a packet is written only in _send_packet_safe, which the loop
\* enters only when _consume_tokens has admitted the packet.  A pass whose
\* packet is rejected takes nothing from the bucket: self.tokens is what the
\* refill left, which is below the old value only when adjust_rate has put
\* the capacity below what the bucket held; the pass writes nothing and adds
\* one to rate_limited_count, and rate_limited_count changes in no other
\* step.
RejectionTakesNothing ==
    /\ [][(gen.pc = "loop" /\ gen'.pc = "acquire") => Admitted]_vars
    /\ [][(gen'.pc = "acquire" /\ gen.pc # "acquire") => gen.pc = "loop"]_vars
    /\ [][(gen'.pc = "wait" /\ gen.pc # "wait") => gen.pc = "acquire"]_vars
    /\ [][(gen'.pc = "write" /\ gen.pc # "write") => gen.pc \in {"acquire", "wait"}]_vars
    /\ [][m2s' # m2s => (gen.pc = "write" /\ m2s' = Append(m2s, TrafficPacket))]_vars
    /\ [][(ConsumePass /\ ~Admitted) =>
            /\ tokens' = Min(Refilled, Capacity)
            /\ tokens' < tokens => tokens > Capacity
            /\ m2s' = m2s
            /\ gen'.pc = "sleep"
            /\ gen_stats.rate_limited_count < MaxCount =>
                  gen_stats'.rate_limited_count = gen_stats.rate_limited_count + 1]_vars
    /\ [][gen_stats'.rate_limited_count # gen_stats.rate_limited_count =>
            (ConsumePass /\ ~Admitted)]_vars

\* one packet was admitted and written, the next was rejected with the bucket
\* short of a packet, and the rejection was counted
RejectedAfterWrite ==
    /\ gen.pc = "sleep"
    /\ gen_stats.rate_limited_count = 1
    /\ gen_stats.packets_sent = 1
    /\ Len(m2s) = 1
    /\ bucket_capacity = TargetBandwidth
    /\ tokens < Tenths(TrafficPacketSize)


(***************************************************************************)
(* Jitter.                                                                 *)
(***************************************************************************)
\* |rtt_i - rtt_(i-1)| for the successive resolved measurements
RttSteps(ok) == [i \in 1..(Len(ok) - 1) |-> Abs(ok[i + 1].rtt_ms - ok[i].rtt_ms)]

\* C27: the jitter statistics are those of the series |rtt_i - rtt_(i-1)| of the
\* successive resolved measurements: the jitter mean and maximum that
\* get_statistics reports are the mean and the maximum of that series.
JitterOfRoundTrips ==
    (lat.pc = "reported" /\ lat.jitter.valid) =>
        LET ok == SelectSeq(lat.measurements, LAMBDA m : m.status = "OK")
            steps == RttSteps(ok)
        IN  /\ lat.jitter.mean = IF steps # <<>> THEN Mean(steps) ELSE Zero
            /\ lat.jitter.max = IF steps # <<>> THEN SeqMax(steps) ELSE 0


ResetCountersOnly ==
    /\ stats # SystemStats
    /\ stats' = SystemStats
    /\ UNCHANGED <<codecVars, unitVars, running, probe_id_counter, records, pending_probes,
                   probe_history, last_rtt_values, inj, rcv, rsp, last_statistics,
                   appended, linkVars, genVars, ctl>>

\* with self.probe_lock: probe_history.clear(); pending_probes.clear();
\* self.stats = {...}; last_rtt_values.clear().  The ProbeRecord objects are
\* not touched.  (A reset that finds everything empty changes nothing.)
ResetStatistics ==
    /\ <<probe_history, pending_probes, stats, last_rtt_values>>
           # <<<<>>, {}, SystemStats, <<>>>>
    /\ probe_history' = <<>>
    /\ pending_probes' = {}
    /\ stats' = SystemStats
    /\ last_rtt_values' = <<>>
    /\ UNCHANGED <<codecVars, unitVars, running, probe_id_counter, records, inj, rcv, rsp,
                   last_statistics, appended, linkVars, genVars, ctl>>

ResetSpec == Init /\ [][ProbeNext \/ ResetStatistics]_vars

\* C29: in every state of the exchange, whatever the order in which the
\* injector, the receiver, the timeout sweep and reset_statistics take
\* probe_lock, total_sent = total_received + total_lost + the number of
\* entries of pending_probes.
SentAccounted ==
    stats.total_sent
        = stats.total_received + stats.total_lost + Cardinality(pending_probes)

\* reset_statistics ran after probe 0 had been received and before probe 1
\* was entered: one probe is counted as sent and it is pending
AccountedAfterReset ==
    /\ records[0].status = "RECEIVED"
    /\ pending_probes = {1}
    /\ stats.total_sent = 1
    /\ stats.total_received = 0
    /\ stats.total_lost = 0


(***************************************************************************)
(* stop().                                                                 *)
(***************************************************************************)
\* stop() has returned: running is False and the three joins are over
StopReturned == ctl.pc \in {"stop_traffic", "close_master", "close_slave", "finished"}

\* C30: once stop() has returned, pending_probes is empty or becomes empty
\* with no further call, and every probe counted as sent is counted as
\* received or as lost: total_sent = total_received + total_lost.
StopAccountsForAll ==
    StopReturned ~>
        (/\ pending_probes = {}
         /\ stats.total_sent = stats.total_received + stats.total_lost)

(***************************************************************************)
(* The scan loops on their own, for every size the injector can be built   *)
(* with: fixed_size is taken as given, and _create_probe_packet writes it  *)
(* into the size field.                                                    *)
(***************************************************************************)
ScanSizes == {0, 1, 10, 23, 24, 25, 26, 30}
MaxResponses == 3        \* responses the Slave side writes before the run is cut

\* a state of the exchange: the injector, built with fixed_size = size, has
\* sent n probes on their ticks; the responder has read them in one read
ScanInit ==
    /\ CodecIdle
    /\ UnitIdle
    /\ \E size \in ScanSizes, n \in 1..MaxProbes :
        LET requests == [i \in 1..n |->
                            create_probe_packet(ToLimbs(i - 1, 2), PROBE_TYPE_REQUEST,
                                                size, Stamp((i - 1) * IntervalTicks))]
        IN  /\ probe_id_counter = n
            /\ records = [i \in 0..(MaxProbes - 1) |->
                            IF i < n
                            THEN [status |-> "PENDING",
                                  timestamp_sent |-> i * IntervalTicks,
                                  timestamp_received |-> 0, packet_size |-> size,
                                  rtt_ms |-> 0, jitter_ms |-> 0]
                            ELSE [status |-> "NONE", timestamp_sent |-> 0,
                                  timestamp_received |-> 0, packet_size |-> 0,
                                  rtt_ms |-> 0, jitter_ms |-> 0]]
            /\ pending_probes = 0..(n - 1)
            /\ stats = [SystemStats EXCEPT !.total_sent = n,
                                            !.bytes_sent = Len(Concat(requests)),
                                            !.size_stats.sent = n]
            /\ inj = [pc |-> "loop", next_probe_time |-> n * IntervalTicks,
                      current_time |-> 0, probe_id |-> 0, timestamp_sent |-> 0,
                      probe_packet |-> <<>>]
            /\ rsp = [pc |-> "scan", buffer |-> Concat(requests)]
            /\ now = (n - 1) * IntervalTicks
            /\ link = [lost |-> FALSE, late |-> n > 1, interleaved |-> FALSE]
    /\ running = TRUE
    /\ probe_history = <<>>
    /\ last_rtt_values = <<>>
    /\ rcv = [pc |-> "loop", buffer |-> <<>>]
    /\ last_statistics = None
    /\ appended = [i \in 0..(MaxProbes - 1) |-> 0]
    /\ m2s = <<>>
    /\ s2m = <<>>
    /\ master_open = TRUE
    /\ slave_open = TRUE
    /\ master_writers = {}
    /\ gen_running = FALSE
    /\ gen = [pc |-> "idle", admitted |-> 0]
    /\ write_lock = "free"
    /\ tokens = 10 * TargetBandwidth
    /\ last_token_update = 0
    /\ target_bandwidth = TargetBandwidth
    /\ bucket_capacity = TargetBandwidth
    /\ adj = [pc |-> "idle", new_bw |-> TargetBandwidth]
    /\ gen_stats = [start_time |-> 0, packets_sent |-> 0, bytes_sent |-> 0, errors |-> 0,
                    rate_limited_count |-> 0, burst_count |-> 0, write_conflicts |-> 0]
    /\ ctl = [pc |-> "probing"]

\* the responder's passes, the receiver's reads and its passes; the run is cut
\* when MaxResponses responses wait on the Master side
ScanSpec ==
    ScanInit /\ [][(Len(s2m) < MaxResponses /\ RspScan) \/ RcvLoop \/ RcvScan]_vars

\* C31: every pass of the inner scan loop of the Responder and of the
\* Collector leaves the scan buffer shorter than it found it, whatever size
\* the decoded header declares.
ScanPassRemovesBytes ==
    [][/\ (rsp.pc = "scan" /\ (rsp' # rsp \/ s2m' # s2m)) =>
              Len(rsp'.buffer) < Len(rsp.buffer)
       /\ (rcv.pc = "scan" /\ (rcv' # rcv \/ records' # records)) =>
              Len(rcv'.buffer) < Len(rcv.buffer)]_vars

\* C32: the size field of every packet the encoder returns holds the number of
\* bytes of that packet, whatever size was asked for.
DeclaredSizeIsLength ==
    (c_pc = "encoded" /\ ~flipped) =>
        UnpackLE(Slice(packet, 16, 17))[1] = Len(packet)

(***************************************************************************)
(* The generator with the rate it was built with: nobody calls             *)
(* adjust_rate.                                                            *)
(***************************************************************************)
FixedRateSpec ==
    Init /\ [][MainStartThread \/ MainStop \/ MainJoin \/ TrafficThread
                   \/ LockUser \/ Tick]_vars

\* C33: with a fixed target rate, the bytes the bucket has admitted since
\* start() are at most what the bucket held at start(), bucket_capacity, plus
\* target_bandwidth times the elapsed time; and so at most the burst
\* capacity, bucket_capacity * burst_allowance, plus target_bandwidth times
\* the elapsed time.  What was admitted and what the bucket still holds make
\* up no more than what the bucket was given up to its last refill.
AdmittedWithinRate ==
    LET elapsed == now - gen_stats.start_time
        refilled == last_token_update - gen_stats.start_time
    IN  /\ Tenths(gen.admitted) + tokens
               <= Tenths(bucket_capacity) + refilled * Tenths(target_bandwidth)
        /\ Tenths(gen.admitted)
               <= Tenths(bucket_capacity) + elapsed * Tenths(target_bandwidth)
        /\ Tenths(gen.admitted) <= Capacity + elapsed * Tenths(target_bandwidth)

\* the generator has run for some time and has been admitted all that the
\* bucket held at start() and all that the rate has added since
AdmittedAllOfRate ==
    /\ gen_running
    /\ now > gen_stats.start_time
    /\ gen.admitted > bucket_capacity
    /\ Tenths(gen.admitted)
           = Tenths(bucket_capacity)
                 + (now - gen_stats.start_time) * Tenths(target_bandwidth)

(***************************************************************************)
(* The tester's run with the generator built on a Lock that it shares:     *)
(* write_lock = self.serial_lock, which somebody else may hold.            *)
(***************************************************************************)
ArbiterSpec == Init /\ [][Next \/ GenWait \/ LockUser]_vars

\* C34: the generator holds write_lock exactly from a successful acquire to
\* the end of that send attempt: it gives the lock back when the write has
\* returned and when the write has raised, a send attempt that did not get
\* the lock leaves it with its holder, and no step of the generator takes the
\* lock from somebody else.
ArbiterReleased ==
    /\ [](write_lock = "gen" <=> gen.pc = "write")
    /\ []("gen" \in master_writers <=> gen.pc = "write")
    /\ [][(gen.pc = "write" /\ gen' # gen) =>
              write_lock' = "free" /\ gen'.pc = "loop"]_vars
    /\ [][(gen' # gen /\ write_lock = "other") => write_lock' = "other"]_vars
    /\ [][(write_lock = "gen" /\ write_lock' # "gen") => gen' # gen]_vars

\* a send attempt found the lock taken, and a write has raised (the port was
\* closed under it); the generator is back in its loop without the lock
ReleasedAfterError ==
    /\ gen_stats.errors > 0
    /\ gen_stats.write_conflicts > 0
    /\ gen.pc = "loop"
    /\ write_lock # "gen"

(***************************************************************************)
(* measure_latency with its response queue: the requests under way, what   *)
(* _master_receiver_loop puts into response_queue and what the loop of     *)
(* measure_latency takes out of it.                                        *)
(***************************************************************************)
\* t1 = perf_counter(); the queue is emptied; the request is written
PairRequest ==
    /\ \/ lat.pc = "idle"
       \/ lat.pc = "measured" /\ lat.packet_id + 1 < NumPackets
    /\ \E t1 \in lat.t1..MaxStamp :
          LET packet_id == IF lat.pc = "idle" THEN 0 ELSE lat.packet_id + 1
          IN  lat' = [lat EXCEPT !.pc = "waiting",
                                 !.packet_id = packet_id,
                                 !.t1 = t1,
                                 !.measurement = Unanswered(0, 0, "NONE"),
                                 !.response_queue = <<>>,
                                 !.under_way =
                                     Append(@, [packet_id |-> packet_id, t1 |-> t1]),
                                 !.own = FALSE]
    /\ UNCHANGED <<codecVars, prof, sizer, systemVars>>

\* the Slave has answered the oldest request under way with its t2 and t3, and
\* _master_receiver_loop puts the response with its t4 into response_queue
PairArrive ==
    /\ lat.pc \in {"waiting", "measured"}
    /\ lat.under_way # <<>>
    /\ \E resp_data \in Responses :
          /\ resp_data.packet_id = Head(lat.under_way).packet_id
          /\ resp_data.t1 = Head(lat.under_way).t1
          /\ resp_data.t1 <= resp_data.t2
          /\ resp_data.t2 <= resp_data.t3
          /\ resp_data.t3 <= resp_data.t4
          /\ lat' = [lat EXCEPT
                       !.under_way = Tail(@),
                       !.response_queue = Append(@, resp_data),
                       !.own = @ \/ (lat.pc = "waiting"
                                        /\ resp_data.packet_id = lat.packet_id)]
    /\ UNCHANGED <<codecVars, prof, sizer, systemVars>>

\* resp_data = response_queue.get(timeout=1.0): the oldest entry, or
\* queue.Empty when the second has passed without one
PairGet ==
    /\ lat.pc = "waiting"
    /\ LET resp_data == Head(lat.response_queue)
           measurement ==
               IF lat.response_queue = <<>>
               THEN Unanswered(lat.packet_id, lat.t1, "TIMEOUT")
               ELSE IF resp_data.packet_id = lat.packet_id
                    THEN Measurement(resp_data)
                    ELSE Unanswered(lat.packet_id, lat.t1, "MISMATCH")
       IN  lat' = [lat EXCEPT !.pc = "measured",
                              !.measurement = measurement,
                              !.measurements = Appended(@, measurement),
                              !.response_queue =
                                  IF @ = <<>> THEN @ ELSE Tail(@)]
    /\ UNCHANGED <<codecVars, prof, sizer, systemVars>>

QueueSpec == Init /\ [][PairRequest \/ PairArrive \/ PairGet]_vars

\* C35: a request whose own response was put into the queue while
\* measure_latency waited for it is measured with status OK, whatever
\* responses to earlier requests arrive meanwhile.
StaleNeverDecides ==
    (lat.pc = "measured" /\ lat.own) => lat.measurement.status = "OK"

(***************************************************************************)
(* P900NetworkTesterEnhanced._create_packet and _parse_packet: the packet  *)
(* of measure_latency with its three timestamps.  A timestamp is as in     *)
(* _create_probe_packet: [us |-> 4 limbs, ns, quotient].                   *)
(***************************************************************************)
TYPE_REQUEST == 1
TYPE_RESPONSE == 2
PAYLOAD_SIZE == 88
TOTAL_PACKET_SIZE == 108

\* REQUEST_MARKER or RESPONSE_MARKER, '<I' of the id, the type, '<I' of
\* int(t * 1_000_000) & 0xFFFFFFFF for t1, t2, t3, the reserved byte, the payload
create_packet(packet_id, packet_type, t1, t2, t3) ==
    (IF packet_type = TYPE_REQUEST THEN <<170, 85>> ELSE <<85, 170>>)
        \o PackLE(packet_id) \o <<packet_type>>
        \o PackLE(SubSeq(TimestampUs(t1), 1, 2))
        \o PackLE(SubSeq(TimestampUs(t2), 1, 2))
        \o PackLE(SubSeq(TimestampUs(t3), 1, 2))
        \o <<0>>
        \o [i \in 1..PAYLOAD_SIZE |-> ((i - 1) + packet_id[1]) % 256]

\* None, or the fields; a timestamp is t_us / 1_000_000.0, and 0 for 0
parse_packet(data) ==
    LET read(a, b) == [us |-> UnpackLE(Slice(data, a, b)) \o <<0, 0>>, ns |-> 0,
                       quotient |-> TRUE]
    IN  IF Len(data) < TOTAL_PACKET_SIZE THEN None
        ELSE IF Slice(data, 1, 2) \notin {<<170, 85>>, <<85, 170>>} THEN None
        ELSE IF data[7] # (IF Slice(data, 1, 2) = <<170, 85>> THEN TYPE_REQUEST
                           ELSE TYPE_RESPONSE) THEN None
        ELSE [packet_id |-> UnpackLE(Slice(data, 3, 6)),
              packet_type |-> IF data[7] = TYPE_REQUEST THEN "REQUEST" ELSE "RESPONSE",
              t1 |-> read(8, 11), t2 |-> read(12, 15), t3 |-> read(16, 19),
              valid |-> TRUE]

\* one request of measure_latency: the Master's clock at t1, and the Slave's
\* clock at t2 and t3, which are perf_counter() of the same process a little
\* later; in whole microseconds
StampInit ==
    /\ c_pc = "input"
    /\ \E packet_id \in {<<0, 0>>, <<1, 0>>},
          clock \in {<<249, 0, 0, 0>>, <<1000, 0, 0, 0>>, <<54321, 18, 0, 0>>,
                     <<65533, 65535, 0, 0>>, <<5, 0, 1, 0>>},
          d2 \in 0..1, d3 \in 0..1 :
          LET at(d) == [us |-> [clock EXCEPT ![1] = @ + d], ns |-> 0,
                        quotient |-> FALSE]
          IN  c_in = [packet_id |-> packet_id, t1 |-> at(0), t2 |-> at(d2),
                      t3 |-> at(d2 + d3)]
    /\ packet = <<>>
    /\ parsed = None
    /\ flipped = FALSE
    /\ UnitIdle
    /\ SystemIdle

\* measure_latency writes the request; _slave_loop parses it and writes the
\* response with the t1 it read and its own t2 and t3; _master_receiver_loop
\* parses the response
StampSpec ==
    StampInit /\
    [][\/ /\ c_pc = "input"
          /\ LET t0 == [us |-> <<0, 0, 0, 0>>, ns |-> 0, quotient |-> FALSE]
             IN  packet' = create_packet(c_in.packet_id, TYPE_REQUEST, c_in.t1,
                                         t0, t0)
          /\ c_pc' = "request"
          /\ UNCHANGED <<c_in, parsed, flipped, systemVars, unitVars>>
       \/ /\ c_pc = "request"
          /\ parse_packet(packet).valid
          /\ packet' = create_packet(parse_packet(packet).packet_id, TYPE_RESPONSE,
                                     parse_packet(packet).t1, c_in.t2, c_in.t3)
          /\ c_pc' = "response"
          /\ UNCHANGED <<c_in, parsed, flipped, systemVars, unitVars>>
       \/ /\ c_pc = "response"
          /\ parsed' = parse_packet(packet)
          /\ c_pc' = "decoded"
          /\ UNCHANGED <<c_in, packet, flipped, systemVars, unitVars>>]_vars

\* C36: the t1, t2 and t3 that the Master reads from a response are the
\* microsecond counts of the clock values that were stamped, for every clock
\* value, so that differences taken against the Master's own t4 are the true
\* ones.
StampsReadBack ==
    c_pc = "decoded" =>
        /\ parsed.valid
        /\ parsed.t1.us = c_in.t1.us
        /\ parsed.t2.us = c_in.t2.us
        /\ parsed.t3.us = c_in.t3.us

\* C37: what get_statistics() returns has total_received equal to the number
\* of probes marked RECEIVED, and total_sent equal to total_received plus
\* total_lost plus the number of pending probes, whatever probe_history still
\* holds.
ReportsAllReceived ==
    [][last_statistics' # last_statistics =>
          /\ last_statistics'.total_received
                 = Cardinality({i \in DOMAIN records : records[i].status = "RECEIVED"})
          /\ last_statistics'.total_sent
                 = last_statistics'.total_received + last_statistics'.total_lost
                       + Cardinality(pending_probes)]_vars

\* C38: every probe marked RECEIVED has a round trip of at most timeout_ms; a
\* response handled after the timeout of its probe has passed matches
\* nothing, in every order of the receiver's passes and the sweeps.
NoLateMatch ==
    \A i \in DOMAIN records :
        records[i].status = "RECEIVED" => records[i].rtt_ms <= TimeoutTicks


(***************************************************************************)
(* The fill loop of the representative sizes, one pass at a time.          *)
(***************************************************************************)
MaxMessages == 11        \* entries of common_messages in a profile file

\* a readable JSON profile file with its three sections: n common messages of
\* the sizes 11 .. 10 + n, categories without 'representative', and a
\* statistics section with min_size lo and max_size hi
ProfileFile(n, lo, hi) ==
    [kind |-> "json",
     size_distribution |-> FileDistribution,
     common_messages |-> [i \in 1..n |-> [size |-> 10 + i, weight |-> 0]],
     statistics |-> [keys |-> {"min_size", "max_size"},
                     min_size |-> lo, max_size |-> hi]]

RangeFiles ==
    {ProfileFile(n, lo, hi) : n \in 6..MaxMessages, lo \in {14, 20}, hi \in {16, 22}}

\* MAVLinkProfile(profile_path) is called on a file that exists
FillInit ==
    /\ CodecIdle
    /\ SystemIdle
    /\ prof \in [built : {FALSE}, file : RangeFiles, attrs : {Unloaded}, pc : {"new"}]
    /\ sizer = [pc |-> "idle", who |-> "nobody", mode |-> "fixed", variable_sizes |-> <<>>,
                current_size_index |-> 0, k |-> 0, size |-> 0]
    /\ lat = LatIdle

\* load_profile up to its call of _generate_representative_sizes, and that
\* method up to its while loop: the sorted sizes of the first ten messages
\* and of the categories' representatives, cut to ten
LoadProfile ==
    /\ prof.pc = "new"
    /\ LET file == prof.file
           sizes == {m.size : m \in Elements(Head10(file.common_messages))}
                    \cup {c.representative :
                            c \in {d \in Elements(file.size_distribution) :
                                     d.with_representative}}
       IN prof' = [prof EXCEPT
                     !.pc = "fill",
                     !.attrs = [size_distribution |-> file.size_distribution,
                                packet_profiles |-> file.common_messages,
                                statistics |-> file.statistics,
                                representative_sizes |-> Head10(Sorted(sizes))]]
    /\ UNCHANGED <<codecVars, sizer, lat, systemVars>>

\* one pass of `while len(self.representative_sizes) < 10`: random.randint
\* raises ValueError on an empty range, which load_profile catches; a size
\* drawn from the range is appended unless the list holds it already
FillPass ==
    /\ prof.pc = "fill"
    /\ Len(prof.attrs.representative_sizes) < ListLength
    /\ LET lo == Get(prof.attrs.statistics, "min_size", DefaultMinSize)
           hi == Get(prof.attrs.statistics, "max_size", DefaultMaxSize)
       IN IF lo > hi
          THEN prof' = [prof EXCEPT !.pc = "failed", !.built = TRUE]
          ELSE \E new_size \in lo..hi :
                  IF new_size \in Elements(prof.attrs.representative_sizes)
                  THEN UNCHANGED prof
                  ELSE prof' = [prof EXCEPT
                                  !.attrs.representative_sizes = Append(@, new_size)]
    /\ UNCHANGED <<codecVars, sizer, lat, systemVars>>

\* the loop's exit: the list is sorted, load_profile returns True and the
\* constructor returns
FillEnd ==
    /\ prof.pc = "fill"
    /\ Len(prof.attrs.representative_sizes) >= ListLength
    /\ prof' = [prof EXCEPT
                  !.pc = "loaded", !.built = TRUE,
                  !.attrs.representative_sizes = Sorted(Elements(@))]
    /\ UNCHANGED <<codecVars, sizer, lat, systemVars>>

FillNext == LoadProfile \/ FillPass \/ FillEnd

FillSpec == FillInit /\ [][FillNext]_vars

\* the constructor's thread keeps running: a pass that can change the list
\* is eventually drawn
FairFillSpec == FillSpec /\ WF_vars(FillNext)

\* C39: constructing a profile from any readable profile file terminates:
\* the generation of the representative sizes finishes for every
\* min_size/max_size range and every set of common-message sizes in the file.
ConstructionTerminates == <>prof.built
=============================================================================
